---- MODULE Spec2Model ----
(***************************************************************************)
(* A model of the Fennec engine's GPU resource and command-submission      *)
(* core: the handle cache (src/cache.rs), the command-buffer recording     *)
(* state machine and the queue (src/vm/graphicsengine/queuefamily.rs), the *)
(* VKHandle ownership wrapper (vkobject.rs) and the per-frame draw         *)
(* sequence (mod.rs).                                                      *)
(*                                                                         *)
(* The module holds several specifications over one set of variables; each *)
(* specification moves only the variables of its component (and the       *)
(* borrow state of the shared Context) and leaves the others at their      *)
(* initial value.                                                          *)
(***************************************************************************)
EXTENDS Integers, Sequences, FiniteSets, TLC

VARIABLES
    \* ---- Cache<T> (cache.rs) ----
    data,           \* data[c]: the HashMap of cache c, a function index -> value
    prev_index,     \* prev_index[c]: the counter of cache c
    issued,         \* history: issued[c] = the indices insert returned, in order
    removed,        \* history: removed[c] = the indices remove was called with
    cache_last,     \* the last cache call and what it returned
    \* ---- Context, CommandBuffer and its recording contexts (queuefamily.rs) ----
    ctx_mut,        \* TRUE while some caller holds a RefMut of the shared Context
    panicked,       \* TRUE once a Drop has panicked (borrow() or unwrap/expect)
    cb_kind,        \* CommandBuffer::kind, "unallocated" before CommandBuffer::new
    writing,        \* CommandBuffer::writing
    writer,         \* the CommandBufferWriter of the buffer: "none", "live", "leaked"
    api_state,      \* the buffer in the API: "initial", "recording", "executable", "invalid"
    cmds,           \* the names of the commands recorded since the last API begin
    pass_live,      \* the ActiveRenderPass values alive
    pipe_live,      \* the ActiveGraphicsPipeline values alive: <<pass, pipeline>>
    bound_pipeline, \* the pipeline cmd_bind_pipeline bound last since the API begin
    pipe_via,       \* history: the pipeline of the ActiveGraphicsPipeline last recorded through
    begin_calls,    \* history: number of begin_command_buffer API calls
    begun,          \* history: number of begin calls that returned a writer
    end_calls,      \* history: number of end_command_buffer API calls
    cmd_last,       \* the last command-buffer call and what it did
    \* ---- VKHandle (vkobject.rs) ----
    handles,        \* handles[i]: VKHandle i, its state, kind, raw handle, protected
    destroy_calls,  \* history: destroy_calls[i] = HandleType::destroy calls by the drop of i
    api_destroys,   \* history: api_destroys[i] = API destroy calls issued by the drop of i
    handle_last,    \* the last VKHandle call and what it did
    \* ---- GraphicsEngine (mod.rs) ----
    frames,         \* history: the image indices presented, in order
    frame_count,    \* history: number of draw calls
    frame_log,      \* the API calls of the last draw call, in order
    frame_last,     \* the last GraphicsEngine call and what it returned
    sem_pending,    \* sem_pending[s]: signals of semaphore s not yet waited on
    sem_misuse,     \* history: the signals of a pending semaphore, the waits on an idle one
    \* ---- CommandPool (queuefamily.rs) ----
    pool_kind,      \* CommandPool::kind
    pool_data,      \* CommandPool::command_buffers.data: index -> batch of buffers
    pool_prev_index,\* CommandPool::command_buffers.prev_index
    pool_next_raw,  \* the number of command buffers the API has allocated so far
    pool_issued,    \* history: the handles create_command_buffers returned, in order
    pool_counts,    \* history: the count of each of those calls
    pool_gone,      \* history: the handles destroy_command_buffers returned Ok for
    pool_freed,     \* history: the free_command_buffers calls, each its raw handles
    pool_last,      \* the last CommandPool call and what it returned
    \* ---- the stages (rendertest.rs, spritelayerrenderer.rs, presenttransitioner.rs) ----
    stage_log,      \* the queue submissions of the last stage call, in order
    stage_last,     \* the last stage call and what it returned
    \* ---- VKObject naming (vkobject.rs, buffer.rs, framebuffer.rs, swapchain.rs) ----
    obj_name,       \* obj_name[o]: the name field of the VKHandle of object o
    gpu_name,       \* gpu_name[o]: the name the debug marker holds for o
    name_calls,     \* the number of set_name calls made by callers
    name_last,      \* the last set_name call and its outcome
    \* ---- SpriteLayer (spritelayer.rs) ----
    sprites,         \* sprites[i]: whether slot i holds a sprite
    highest_sprite,  \* the highest_sprite field, an Option<usize>
    sprite_count,    \* the sprite_count field
    sprite_handles,  \* the array indices of the SpriteHandles create returned
    sprite_gone,     \* history: the array indices of the handles destroy returned Ok for
    sprite_last,     \* the last SpriteLayer call and what it returned
    \* ---- queue priorities of the families (queuefamily.rs) ----
    pri_last,        \* the last priority-list call: its input, the list it left, its result
    \* ---- QueueFamily (queuefamily.rs) ----
    qf_kind,         \* the kind field, "uncreated" before QueueFamily::new
    qf_queue_count,  \* the queue_count field
    qf_queues,       \* the queues field, an Option<Vec<Queue>>
    qf_command_pools, \* the command_pools field, an Option<CommandPoolCollection>
    qf_set_up,       \* whether a setup call has returned Ok
    qf_last,         \* the last QueueFamily call and what it returned
    \* ---- DescriptorSet (descriptorpool.rs) ----
    ds_layout_mut,   \* whether the set's layout RefCell is mutably borrowed
    ds_last,         \* the last write_uniform_buffers call and what it returned
    \* ---- VM::start (vm/mod.rs) and main (main.rs) ----
    vm_pc,           \* where the run is: created, loop, returned (start has returned), dropped
    vm_running,      \* the local `running` of VM::start
    vm_log,          \* the draws, the device-idle wait and the destruction, in order
    vm_result,       \* what VM::start returned
    \* ---- Image::load_compressed_image (image.rs) ----
    load_count,      \* the number of load_compressed_image calls made
    load_log,        \* the API calls and destructions of all the calls, in order
    load_leaked,     \* the calls whose command-buffer batch is still in the pool
    load_last,       \* the last load_compressed_image call and what it returned
    \* ---- Buffer::new, Image2D::new, Memory::new (buffer.rs, image.rs, memory.rs) ----
    res_count,       \* the number of Buffer::new and Image2D::new calls made
    res_live,        \* the raw GPU objects alive: the call that created each, and what it is
    res_owned,       \* the calls whose Buffer or Image2D the caller holds
    res_last         \* the last constructor or drop and what it returned

cache_vars == <<data, prev_index, issued, removed, cache_last>>

cmd_state_vars == <<cb_kind, writing, writer, api_state, cmds, pass_live,
                    pipe_live, begin_calls, begun, end_calls, cmd_last,
                    bound_pipeline, pipe_via>>

cmd_vars == <<ctx_mut, panicked, cmd_state_vars>>

handle_vars == <<handles, destroy_calls, api_destroys, handle_last>>

frame_vars == <<frames, frame_count, frame_log, frame_last, sem_pending, sem_misuse>>

pool_vars == <<pool_kind, pool_data, pool_prev_index, pool_next_raw, pool_issued,
               pool_counts, pool_gone, pool_freed, pool_last>>

stage_vars == <<stage_log, stage_last>>

name_vars == <<obj_name, gpu_name, name_calls, name_last>>

sprite_vars == <<sprites, highest_sprite, sprite_count, sprite_handles, sprite_gone,
                 sprite_last>>

pri_vars == <<pri_last>>

qf_vars == <<qf_kind, qf_queue_count, qf_queues, qf_command_pools, qf_set_up, qf_last>>

ds_vars == <<ds_layout_mut, ds_last>>

vm_vars == <<vm_pc, vm_running, vm_log, vm_result>>

load_vars == <<load_count, load_log, load_leaked, load_last>>

res_vars == <<res_count, res_live, res_owned, res_last>>

vars == <<cache_vars, cmd_vars, handle_vars, frame_vars, pool_vars, stage_vars,
          name_vars,
    sprite_vars,
    pri_vars,
    qf_vars,
    ds_vars,
    vm_vars,
    load_vars,
    res_vars>>

\* The variables a cache call leaves alone, those a command-buffer call does,
\* those a VKHandle call does (its Drop may panic) and those a GraphicsEngine
\* call does.
not_cache_vars == <<cmd_vars, handle_vars, frame_vars, pool_vars, stage_vars,
    name_vars,
    sprite_vars,
    pri_vars,
    qf_vars,
    ds_vars,
    vm_vars,
    load_vars,
    res_vars>>
not_cmd_vars == <<cache_vars, handle_vars, frame_vars, pool_vars, stage_vars,
    name_vars,
    sprite_vars,
    pri_vars,
    qf_vars,
    ds_vars,
    vm_vars,
    load_vars,
    res_vars>>
not_handle_vars == <<cache_vars, ctx_mut, cmd_state_vars, frame_vars, pool_vars, stage_vars,
    name_vars,
    sprite_vars,
    pri_vars,
    qf_vars,
    ds_vars,
    vm_vars,
    load_vars,
    res_vars>>
not_frame_vars == <<cache_vars, cmd_vars, handle_vars, pool_vars, stage_vars,
    name_vars,
    sprite_vars,
    pri_vars,
    qf_vars,
    ds_vars,
    vm_vars,
    load_vars,
    res_vars>>
\* A CommandPool call and a stage call may panic too.
not_pool_vars == <<cache_vars, ctx_mut, cmd_state_vars, handle_vars, frame_vars, stage_vars,
    name_vars,
    sprite_vars,
    pri_vars,
    qf_vars,
    ds_vars,
    vm_vars,
    load_vars,
    res_vars>>
not_stage_vars == <<cache_vars, ctx_mut, cmd_state_vars, handle_vars, frame_vars, pool_vars,
    name_vars,
    sprite_vars,
    pri_vars,
    qf_vars,
    ds_vars,
    vm_vars,
    load_vars,
    res_vars>>
\* VKObject::set_name returns its errors and borrows the Context only shared.
not_name_vars == <<cache_vars, cmd_vars, handle_vars, frame_vars, pool_vars, stage_vars,
    sprite_vars,
    pri_vars,
    qf_vars,
    ds_vars,
    vm_vars,
    load_vars,
    res_vars>>
\* A SpriteLayer call may panic.
not_sprite_vars == <<cache_vars, ctx_mut, cmd_state_vars, handle_vars, frame_vars, pool_vars, stage_vars,
    name_vars,
    pri_vars,
    qf_vars,
    ds_vars,
    vm_vars,
    load_vars,
    res_vars>>
\* reduce_family_priorities_to_unique may panic.
not_pri_vars == <<cache_vars, ctx_mut, cmd_state_vars, handle_vars, frame_vars, pool_vars, stage_vars,
    name_vars, sprite_vars,
    qf_vars,
    ds_vars,
    vm_vars,
    load_vars,
    res_vars>>
\* queue_n_in_priority_range may panic.
not_qf_vars == <<cache_vars, ctx_mut, cmd_state_vars, handle_vars, frame_vars, pool_vars, stage_vars,
    name_vars, sprite_vars, pri_vars,
    ds_vars,
    vm_vars,
    load_vars,
    res_vars>>
\* write_uniform_buffers may panic.
not_ds_vars == <<cache_vars, ctx_mut, cmd_state_vars, handle_vars, frame_vars, pool_vars, stage_vars,
    name_vars, sprite_vars, pri_vars, qf_vars,
    vm_vars,
    load_vars,
    res_vars>>
\* main unwraps the result of VM::start.
not_vm_vars == <<cache_vars, ctx_mut, cmd_state_vars, handle_vars, frame_vars, pool_vars, stage_vars,
    name_vars, sprite_vars, pri_vars, qf_vars, ds_vars,
    load_vars,
    res_vars>>
\* The writer dropped inside load_compressed_image may panic.
not_load_vars == <<cache_vars, ctx_mut, cmd_state_vars, handle_vars, frame_vars, pool_vars, stage_vars,
    name_vars, sprite_vars, pri_vars, qf_vars, ds_vars, vm_vars,
    res_vars>>

\* A constructor or a drop of a buffer or image may panic.
not_res_vars == <<cache_vars, ctx_mut, cmd_state_vars, handle_vars, frame_vars, pool_vars, stage_vars,
    name_vars, sprite_vars, pri_vars, qf_vars, ds_vars, vm_vars, load_vars>>

----------------------------------------------------------------------------
(* Bounds *)

\* At most this many inserts per cache.
MaxInserts == 2

\* At most this many begin_command_buffer API calls on the command buffer.
MaxBegins == 2

\* At most this many commands recorded by calls in one recording (the end of a
\* render pass, recorded by a Drop, is not held back by it).
MaxCmds == 4

\* At most this many ActiveRenderPass values alive at once.
MaxPasses == 1

\* At most this many VKHandle values created.
MaxHandles == 2

\* At most this many GraphicsEngine::draw calls.
MaxFrames == 2

\* At most this many batches created in the command pool.
MaxBatches == 2

\* set_name calls made by callers.
MaxSetNames == 2

\* The model's SpriteLayer::MAX_SPRITES (65536 in spritelayer.rs).
MAX_SPRITES == 4

\* The unit of a priority: priority p is the integer p * PriorityDen.
PriorityDen == 4

\* At most this many entries in a list of family priorities.
MaxFamilies == 3

\* The model's width of usize: arithmetic without overflow checks is modulo it.
UsizeModulus == 16

\* At most this many queues reported for a family.
MaxQueues == 3

\* The model's width of u32: the values are 0..U32Modulus - 1.
U32Modulus == 16

\* At most this many buffer writes in one write_uniform_buffers call.
MaxWrites == 3

\* At most this many iterations of the loop of VM::start.
MaxLoops == 3

\* At most this many load_compressed_image calls.
MaxLoads == 2

\* At most this many Buffer::new and Image2D::new calls.
MaxNews == 3

----------------------------------------------------------------------------
(* Cache<T> and Handle<T>: src/cache.rs *)

\* Two caches of the same element type T, so their handles have the same type.
Caches == {"A", "B"}

\* The element values stored.
Values == {"x", "y"}

\* Option::None of Option<T>, Option<&T>, Option<&mut T>.
None == "None"

\* A function with one more (or one replaced) mapping: HashMap::insert.
MapInsert(m, k, v) == [i \in (DOMAIN m) \cup {k} |-> IF i = k THEN v ELSE m[i]]

MapRemoveNothing(m, k) == m

\* A function without a key: HashMap::remove.
MapRemove(m, k) == [i \in (DOMAIN m) \ {k} |-> m[i]]

\* The empty HashMap.
EmptyMap == [i \in {} |-> None]

\* Handle equality (impl PartialEq for Handle): by index alone.  A handle is
\* modelled by its index; the cache that issued it is not part of its value.
HandleEq(h1, h2) == h1 = h2

\* HashMap lookup under Handle's Hash and PartialEq: the key equal to handle h.
MapGet(m, h) == IF \E k \in DOMAIN m : HandleEq(k, h)
                THEN m[CHOOSE k \in DOMAIN m : HandleEq(k, h)]
                ELSE None

\* A slot-reusing arena: the lowest index not in use.
ReusedIndex(prev, m) == CHOOSE i \in 1..(prev + 1) :
                          /\ i \notin DOMAIN m
                          /\ \A j \in 1..(i - 1) : j \in DOMAIN m

\* The index of the handle insert creates (prev_index += 1; Handle::new(prev_index)).
NextIndex(prev, m) == prev + 1

\* The handles a caller can hold: Handle::new is private, so every handle was
\* returned by the insert of some cache of this element type.
IssuedSet(c) == {issued[c][k] : k \in 1..Len(issued[c])}

\* What a call returned and did, kept for the properties: the call, the cache it
\* was made on, the cache that issued the handle passed, the handle passed, the
\* handle or value returned, the value the cache held under the handle before
\* the call, whether remove had been called on this cache with the handle before
\* the call, and whether the call changed the cache's map.
CacheCall(op, c, o, h, rh, rv, m, m2) ==
    [op |-> op, cache |-> c, origin |-> o, handle |-> h, ret_handle |-> rh,
     ret_value |-> rv, pre_value |-> MapGet(m, h), pre_removed |-> (h \in removed[c]),
     changed |-> (m2 # m)]

\* Cache::new for every cache.
CacheInit ==
    /\ data = [c \in Caches |-> EmptyMap]
    /\ prev_index = [c \in Caches |-> 0]
    /\ issued = [c \in Caches |-> <<>>]
    /\ removed = [c \in Caches |-> {}]
    /\ cache_last = CacheCall("new", "A", "A", 0, 0, None, EmptyMap, EmptyMap)

\* Cache::insert(value)
Insert(c, v) ==
    /\ Len(issued[c]) < MaxInserts
    /\ LET idx == NextIndex(prev_index[c], data[c]) IN
        /\ prev_index' = [prev_index EXCEPT ![c] = idx]
        /\ data' = [data EXCEPT ![c] = MapInsert(data[c], idx, v)]
        /\ issued' = [issued EXCEPT ![c] = Append(issued[c], idx)]
        /\ cache_last' = CacheCall("insert", c, c, idx, idx, None, data[c], data'[c])
    /\ UNCHANGED removed
    /\ UNCHANGED not_cache_vars

\* Cache::remove(handle), the handle having been issued by cache o.
Remove(c, o, h) ==
    /\ h \in IssuedSet(o)
    /\ data' = [data EXCEPT ![c] = MapRemove(data[c], h)]
    /\ removed' = [removed EXCEPT ![c] = removed[c] \cup {h}]
    /\ cache_last' = CacheCall("remove", c, o, h, 0, MapGet(data[c], h), data[c], data'[c])
    /\ UNCHANGED <<prev_index, issued>>
    /\ UNCHANGED not_cache_vars

\* Cache::get(handle), the handle having been issued by cache o.
Get(c, o, h) ==
    /\ h \in IssuedSet(o)
    /\ cache_last' = CacheCall("get", c, o, h, 0, MapGet(data[c], h), data[c], data[c])
    /\ UNCHANGED <<data, prev_index, issued, removed>>
    /\ UNCHANGED not_cache_vars

\* Cache::get_mut(handle), the handle having been issued by cache o.  The call
\* changes nothing; the caller may then write w through the returned reference
\* (w = None: it does not write).
GetMut(c, o, h, w) ==
    /\ h \in IssuedSet(o)
    /\ cache_last' = CacheCall("get_mut", c, o, h, 0, MapGet(data[c], h), data[c], data[c])
    /\ data' = IF MapGet(data[c], h) # None /\ w # None
               THEN [data EXCEPT ![c] = MapInsert(data[c], h, w)]
               ELSE data
    /\ UNCHANGED <<prev_index, issued, removed>>
    /\ UNCHANGED not_cache_vars

\* Every call on cache "A", with handles issued by either cache; cache "B" is a
\* second cache of the same element type, which only issues handles.
CacheNext ==
    \/ \E c \in Caches, v \in Values : Insert(c, v)
    \/ \E o \in Caches, h \in 1..MaxInserts : Remove("A", o, h)
    \/ \E o \in Caches, h \in 1..MaxInserts : Get("A", o, h)
    \/ \E o \in Caches, h \in 1..MaxInserts, w \in Values \cup {None} : GetMut("A", o, h, w)

----------------------------------------------------------------------------
(* Context borrows, CommandBuffer, CommandBufferWriter, Queue::submit:
   src/vm/graphicsengine/queuefamily.rs *)

\* enum QueueKind
QueueKinds == {"Present", "Graphics", "Transfer", "Compute"}

\* The kinds of FennecError the calls return, and Ok.
Ok == "Ok"
IllegalState == "IllegalState"
BorrowConflict == "BorrowConflict"
ApiError == "ApiError"
ArgumentError == "ArgumentError"

\* The graphics pipelines a caller can bind.
Pipelines == {"p1", "p2"}

PassIds == 1..MaxPasses

\* No command recorded.
NoCmd == [name |-> "none", a |-> 0, b |-> 0, c |-> 0, d |-> 0, e |-> 0]

\* A command handed to the API, with its arguments in the API's order.
Cmd(name, a, b, c, d, e) == [name |-> name, a |-> a, b |-> b, c |-> c, d |-> d, e |-> e]

\* No arguments kept for a call.
NoArgs == <<>>

\* What a call did, kept for the properties: the call, the arguments it was
\* given, its result, the API call it issued ("none" if it issued none), the
\* command it handed to the API, the writing flag, the number of recorded
\* commands and the number of render passes alive before the call, whether the
\* Context was mutably borrowed during the call, and whether the API call it
\* reached (if any) was to succeed.
CmdCall(op, args, result, api, cmd, api_ok) ==
    [op |-> op, args |-> args, result |-> result, api |-> api, cmd |-> cmd,
     writing_before |-> writing, ncmds_before |-> Len(cmds),
     npasses_before |-> Cardinality(pass_live), borrowed |-> ctx_mut,
     api_ok |-> api_ok, bound_before |-> bound_pipeline]

\* The Context freshly created, one command buffer not yet allocated.
CmdInit ==
    /\ ctx_mut = FALSE
    /\ panicked = FALSE
    /\ cb_kind = "unallocated"
    /\ writing = FALSE
    /\ writer = "none"
    /\ api_state = "initial"
    /\ cmds = <<>>
    /\ pass_live = {}
    /\ pipe_live = {}
    /\ bound_pipeline = "none"
    /\ pipe_via = "none"
    /\ begin_calls = 0
    /\ begun = 0
    /\ end_calls = 0
    /\ cmd_last = [op |-> "new", args |-> NoArgs, result |-> Ok, api |-> "none",
                   cmd |-> NoCmd, writing_before |-> FALSE, ncmds_before |-> 0,
                   npasses_before |-> 0, borrowed |-> FALSE, api_ok |-> TRUE,
                   bound_before |-> "none"]

\* Context::try_borrow(): fails while the Context is mutably borrowed.
TryBorrowFails == ctx_mut

\* A caller takes a mutable borrow of the shared Context (RefCell::borrow_mut on
\* the Rc<RefCell<Context>> that VKObject::context hands out).
BorrowContextMut ==
    /\ ~panicked /\ ~ctx_mut
    /\ ctx_mut' = TRUE
    /\ UNCHANGED <<panicked, cb_kind, bound_pipeline, pipe_via, writing, writer, api_state,
                   cmds, pass_live,
                   pipe_live, begin_calls, begun, end_calls, cmd_last>>
    /\ UNCHANGED not_cmd_vars

\* The caller drops its RefMut of the Context.
ReleaseContextMut ==
    /\ ~panicked /\ ctx_mut
    /\ ctx_mut' = FALSE
    /\ UNCHANGED <<panicked, cb_kind, bound_pipeline, pipe_via, writing, writer, api_state,
                   cmds, pass_live,
                   pipe_live, begin_calls, begun, end_calls, cmd_last>>
    /\ UNCHANGED not_cmd_vars

\* CommandBuffer::new for a pool of kind k (one buffer of the batch).
NewCommandBuffer(k, api_ok) ==
    /\ ~panicked /\ cb_kind = "unallocated"
    /\ IF TryBorrowFails
       THEN /\ cmd_last' = CmdCall("new_buffer", NoArgs, BorrowConflict, "none", NoCmd, api_ok)
            /\ UNCHANGED <<cb_kind, writing>>
       ELSE IF ~api_ok
       THEN /\ cmd_last' = CmdCall("new_buffer", NoArgs, ApiError, "allocate_command_buffers",
                                    NoCmd, api_ok)
            /\ UNCHANGED <<cb_kind, writing>>
       ELSE /\ cb_kind' = k
            /\ writing' = FALSE
            /\ cmd_last' = CmdCall("new_buffer", NoArgs, Ok, "allocate_command_buffers", NoCmd, api_ok)
    /\ UNCHANGED <<ctx_mut, panicked, bound_pipeline, pipe_via, writer, api_state, cmds,
                   pass_live, pipe_live,
                   begin_calls, begun, end_calls>>
    /\ UNCHANGED not_cmd_vars

\* The already-writing check of begin ignored.
BeginRejectsNever(w) == FALSE

\* CommandBuffer::begin: the already-writing check (if self.writing).
BeginRejects(w) == w

\* begin setting the writing flag before it borrows the Context and calls the
\* API, so that a failure after the check leaves the flag set.
BeginFlagFirst(used_once, simultaneous_use, api_ok) ==
    /\ ~panicked /\ cb_kind # "unallocated" /\ writer # "live"
    /\ writing \/ begin_calls < MaxBegins
    /\ IF BeginRejects(writing)
       THEN /\ cmd_last' = CmdCall("begin", <<used_once, simultaneous_use>>, IllegalState, "none", NoCmd, api_ok)
            /\ UNCHANGED <<writing, writer, api_state, cmds, begin_calls, begun>>
       ELSE IF TryBorrowFails
       THEN /\ writing' = TRUE
            /\ cmd_last' = CmdCall("begin", <<used_once, simultaneous_use>>, BorrowConflict, "none", NoCmd, api_ok)
            /\ UNCHANGED <<writer, api_state, cmds, begin_calls, begun>>
       ELSE IF ~api_ok
       THEN /\ writing' = TRUE
            /\ begin_calls' = begin_calls + 1
            /\ cmd_last' = CmdCall("begin", <<used_once, simultaneous_use>>, ApiError, "begin_command_buffer", NoCmd, api_ok)
            /\ UNCHANGED <<writer, api_state, cmds, begun>>
       ELSE /\ begin_calls' = begin_calls + 1
            /\ begun' = begun + 1
            /\ writing' = TRUE
            /\ writer' = "live"
            /\ api_state' = "recording"
            /\ cmds' = <<>>
            /\ cmd_last' = CmdCall("begin", <<used_once, simultaneous_use>>, Ok, "begin_command_buffer",
                                    Cmd("begin_command_buffer",
                                        IF used_once THEN 1 ELSE 0,
                                        IF simultaneous_use THEN 1 ELSE 0, 0, 0, 0), api_ok)
    /\ UNCHANGED <<ctx_mut, panicked, cb_kind, pipe_via, pass_live, pipe_live, end_calls>>
    /\ bound_pipeline' = IF ~BeginRejects(writing) /\ ~TryBorrowFails /\ api_ok
                        THEN "none" ELSE bound_pipeline
    /\ UNCHANGED not_cmd_vars

\* CommandBuffer::begin(used_once, simultaneous_use).  It takes &mut self, so it
\* cannot be called while a live writer borrows the buffer.
Begin(used_once, simultaneous_use, api_ok) ==
    /\ ~panicked /\ cb_kind # "unallocated" /\ writer # "live"
    /\ writing \/ begin_calls < MaxBegins
    /\ IF BeginRejects(writing)
       THEN /\ cmd_last' = CmdCall("begin", <<used_once, simultaneous_use>>, IllegalState, "none", NoCmd, api_ok)
            /\ UNCHANGED <<writing, writer, api_state, cmds, begin_calls, begun>>
       ELSE IF TryBorrowFails
       THEN /\ cmd_last' = CmdCall("begin", <<used_once, simultaneous_use>>, BorrowConflict, "none", NoCmd, api_ok)
            /\ UNCHANGED <<writing, writer, api_state, cmds, begin_calls, begun>>
       ELSE IF ~api_ok
       THEN /\ begin_calls' = begin_calls + 1
            /\ cmd_last' = CmdCall("begin", <<used_once, simultaneous_use>>, ApiError, "begin_command_buffer", NoCmd, api_ok)
            /\ UNCHANGED <<writing, writer, api_state, cmds, begun>>
       ELSE /\ begin_calls' = begin_calls + 1
            /\ begun' = begun + 1
            /\ writing' = TRUE
            /\ writer' = "live"
            /\ api_state' = "recording"
            /\ cmds' = <<>>
            /\ cmd_last' = CmdCall("begin", <<used_once, simultaneous_use>>, Ok, "begin_command_buffer",
                                    Cmd("begin_command_buffer",
                                        IF used_once THEN 1 ELSE 0,
                                        IF simultaneous_use THEN 1 ELSE 0, 0, 0, 0), api_ok)
    /\ UNCHANGED <<ctx_mut, panicked, cb_kind, pipe_via, pass_live, pipe_live, end_calls>>
    /\ bound_pipeline' = IF ~BeginRejects(writing) /\ ~TryBorrowFails /\ api_ok
                        THEN "none" ELSE bound_pipeline
    /\ UNCHANGED not_cmd_vars

\* The writer's Drop leaving the flag set.
WritingAfterDropStays(w) == w

\* impl Drop for CommandBufferWriter: self.command_buffer.writing = false.
WritingAfterDrop(w) == FALSE

\* impl Drop for CommandBufferWriter, run by CommandBufferWriter::end(self) and
\* by the writer leaving scope.  Every ActiveRenderPass borrows the writer, so
\* none is alive.  borrow() panics while the Context is mutably borrowed, and
\* unwrap() panics when end_command_buffer fails.
DropWriter(api_ok) ==
    /\ ~panicked /\ writer = "live" /\ pass_live = {}
    /\ writing' = WritingAfterDrop(writing)
    /\ writer' = "none"
    /\ IF ctx_mut
       THEN /\ panicked' = TRUE
            /\ cmd_last' = CmdCall("drop_writer", NoArgs, "Panic", "none", NoCmd, api_ok)
            /\ UNCHANGED <<api_state, end_calls>>
       ELSE /\ end_calls' = end_calls + 1
            /\ api_state' = IF api_ok THEN "executable" ELSE "invalid"
            /\ panicked' = ~api_ok
            /\ cmd_last' = CmdCall("drop_writer", NoArgs, IF api_ok THEN Ok ELSE "Panic",
                                    "end_command_buffer", NoCmd, api_ok)
    /\ UNCHANGED <<ctx_mut, cb_kind, bound_pipeline, pipe_via, cmds, pass_live, pipe_live,
                   begin_calls, begun>>
    /\ UNCHANGED not_cmd_vars

\* The writer is leaked (std::mem::forget, or kept in a leaked allocation): its
\* Drop never runs and the borrow of the buffer ends.
ForgetWriter ==
    /\ ~panicked /\ writer = "live" /\ pass_live = {}
    /\ writer' = "leaked"
    /\ cmd_last' = CmdCall("forget_writer", NoArgs, Ok, "none", NoCmd, TRUE)
    /\ UNCHANGED <<ctx_mut, panicked, cb_kind, bound_pipeline, pipe_via, writing, api_state,
                   cmds, pass_live,
                   pipe_live, begin_calls, begun, end_calls>>
    /\ UNCHANGED not_cmd_vars

\* Queue::submit(Some(&[&command_buffer]), ..): it takes the buffer by shared
\* reference, so no live writer borrows it; it does not read the writing flag.
Submit(api_ok) ==
    /\ ~panicked /\ cb_kind # "unallocated" /\ writer # "live"
    /\ IF TryBorrowFails
       THEN cmd_last' = CmdCall("submit", NoArgs, BorrowConflict, "none", NoCmd, api_ok)
       ELSE cmd_last' = CmdCall("submit", NoArgs, IF api_ok THEN Ok ELSE ApiError,
                                "queue_submit", NoCmd, api_ok)
    /\ UNCHANGED <<ctx_mut, panicked, cb_kind, bound_pipeline, pipe_via, writing, writer,
                   api_state, cmds,
                   pass_live, pipe_live, begin_calls, begun, end_calls>>
    /\ UNCHANGED not_cmd_vars

\* A kind check that accepts every kind.
VerifyKindAny(kind, expected_kinds) == TRUE

\* CommandBuffer::verify_kind(expected_kinds): Ok iff the list contains the kind.
VerifyKind(kind, expected_kinds) == kind \in expected_kinds

\* The rest of a recording call once its checks have passed: try_borrow()? on
\* the Context, then the cmd_* call, which returns nothing.
Record(op, args, cmd) ==
    IF TryBorrowFails
    THEN /\ cmd_last' = CmdCall(op, args, BorrowConflict, "none", NoCmd, TRUE)
         /\ UNCHANGED cmds
    ELSE /\ cmds' = Append(cmds, cmd.name)
         /\ cmd_last' = CmdCall(op, args, Ok, cmd.name, cmd, TRUE)

\* A recording call returning an error before it reaches the Context.
Reject(op, args, error) ==
    /\ cmd_last' = CmdCall(op, args, error, "none", NoCmd, TRUE)
    /\ UNCHANGED cmds

\* CommandBufferWriter::pipeline_barrier
PipelineBarrier ==
    /\ ~panicked /\ writer = "live" /\ Len(cmds) < MaxCmds
    /\ IF ~VerifyKind(cb_kind, {"Transfer", "Graphics", "Compute"})
       THEN Reject("pipeline_barrier", NoArgs, IllegalState)
       ELSE Record("pipeline_barrier", NoArgs, Cmd("cmd_pipeline_barrier", 0, 0, 0, 0, 0))
    /\ UNCHANGED <<ctx_mut, panicked, cb_kind, bound_pipeline, pipe_via, writing, writer,
                   api_state, pass_live,
                   pipe_live, begin_calls, begun, end_calls>>
    /\ UNCHANGED not_cmd_vars

\* CommandBufferWriter::clear_color_image
ClearColorImage ==
    /\ ~panicked /\ writer = "live" /\ Len(cmds) < MaxCmds
    /\ IF ~VerifyKind(cb_kind, {"Graphics", "Compute"})
       THEN Reject("clear_color_image", NoArgs, IllegalState)
       ELSE Record("clear_color_image", NoArgs, Cmd("cmd_clear_color_image", 0, 0, 0, 0, 0))
    /\ UNCHANGED <<ctx_mut, panicked, cb_kind, bound_pipeline, pipe_via, writing, writer,
                   api_state, pass_live,
                   pipe_live, begin_calls, begun, end_calls>>
    /\ UNCHANGED not_cmd_vars

\* CommandBufferWriter::copy_buffer_to_image; regions_inside is the outcome of
\* Image::verify_region_is_inside over the regions.
CopyBufferToImage(regions_inside) ==
    /\ ~panicked /\ writer = "live" /\ Len(cmds) < MaxCmds
    /\ IF ~VerifyKind(cb_kind, {"Transfer", "Graphics", "Compute"})
       THEN Reject("copy_buffer_to_image", NoArgs, IllegalState)
       ELSE IF ~regions_inside
       THEN Reject("copy_buffer_to_image", NoArgs, ArgumentError)
       ELSE Record("copy_buffer_to_image", NoArgs, Cmd("cmd_copy_buffer_to_image", 0, 0, 0, 0, 0))
    /\ UNCHANGED <<ctx_mut, panicked, cb_kind, bound_pipeline, pipe_via, writing, writer,
                   api_state, pass_live,
                   pipe_live, begin_calls, begun, end_calls>>
    /\ UNCHANGED not_cmd_vars

\* CommandBufferWriter::begin_render_pass: on success the ActiveRenderPass i
\* comes to life.  It takes the writer by shared reference.
BeginRenderPass(i) ==
    /\ ~panicked /\ writer = "live" /\ Len(cmds) < MaxCmds
    /\ i \notin pass_live
    /\ IF ~VerifyKind(cb_kind, {"Graphics"})
       THEN Reject("begin_render_pass", NoArgs, IllegalState) /\ UNCHANGED pass_live
       ELSE /\ Record("begin_render_pass", NoArgs, Cmd("cmd_begin_render_pass", 0, 0, 0, 0, 0))
            /\ pass_live' = IF TryBorrowFails THEN pass_live ELSE pass_live \cup {i}
    /\ UNCHANGED <<ctx_mut, panicked, cb_kind, bound_pipeline, pipe_via, writing, writer, api_state,
                   pipe_live, begin_calls, begun, end_calls>>
    /\ UNCHANGED not_cmd_vars

\* A drop of the ActiveRenderPass that its ActiveGraphicsPipelines do not hold
\* back, as if they kept no borrow of it.
DropRenderPassUnderPipelines(i) ==
    /\ ~panicked /\ i \in pass_live
    /\ pass_live' = pass_live \ {i}
    /\ IF ctx_mut
       THEN /\ panicked' = TRUE
            /\ cmd_last' = CmdCall("drop_render_pass", NoArgs, "Panic", "none", NoCmd, TRUE)
            /\ UNCHANGED cmds
       ELSE /\ cmds' = Append(cmds, "cmd_end_render_pass")
            /\ cmd_last' = CmdCall("drop_render_pass", NoArgs, Ok, "cmd_end_render_pass",
                                    Cmd("cmd_end_render_pass", 0, 0, 0, 0, 0), TRUE)
            /\ UNCHANGED panicked
    /\ UNCHANGED <<ctx_mut, cb_kind, bound_pipeline, pipe_via, writing, writer, api_state,
                   pipe_live,
                   begin_calls, begun, end_calls>>
    /\ UNCHANGED not_cmd_vars

\* impl Drop for ActiveRenderPass, run by ActiveRenderPass::end(self) and by the
\* value leaving scope; no ActiveGraphicsPipeline borrows it.  borrow() panics
\* while the Context is mutably borrowed.
DropRenderPass(i) ==
    /\ ~panicked /\ i \in pass_live
    /\ \A p \in Pipelines : <<i, p>> \notin pipe_live
    /\ pass_live' = pass_live \ {i}
    /\ IF ctx_mut
       THEN /\ panicked' = TRUE
            /\ cmd_last' = CmdCall("drop_render_pass", NoArgs, "Panic", "none", NoCmd, TRUE)
            /\ UNCHANGED cmds
       ELSE /\ cmds' = Append(cmds, "cmd_end_render_pass")
            /\ cmd_last' = CmdCall("drop_render_pass", NoArgs, Ok, "cmd_end_render_pass",
                                    Cmd("cmd_end_render_pass", 0, 0, 0, 0, 0), TRUE)
            /\ UNCHANGED panicked
    /\ UNCHANGED <<ctx_mut, cb_kind, bound_pipeline, pipe_via, writing, writer, api_state,
                   pipe_live,
                   begin_calls, begun, end_calls>>
    /\ UNCHANGED not_cmd_vars

\* ActiveRenderPass::bind_graphics_pipeline(pipeline) on the render pass i.
BindGraphicsPipeline(i, p) ==
    /\ ~panicked /\ i \in pass_live /\ Len(cmds) < MaxCmds
    /\ <<i, p>> \notin pipe_live
    /\ Record("bind_graphics_pipeline", NoArgs, Cmd("cmd_bind_pipeline", 0, 0, 0, 0, 0))
    /\ pipe_live' = IF TryBorrowFails THEN pipe_live ELSE pipe_live \cup {<<i, p>>}
    /\ UNCHANGED <<ctx_mut, panicked, cb_kind, pipe_via, writing, writer, api_state, pass_live,
                   begin_calls, begun, end_calls>>
    /\ bound_pipeline' = IF TryBorrowFails THEN bound_pipeline ELSE p
    /\ UNCHANGED not_cmd_vars

\* impl Drop for ActiveGraphicsPipeline (and ActiveGraphicsPipeline::end): no call.
DropGraphicsPipeline(i, p) ==
    /\ ~panicked /\ <<i, p>> \in pipe_live
    /\ pipe_live' = pipe_live \ {<<i, p>>}
    /\ cmd_last' = CmdCall("drop_graphics_pipeline", NoArgs, Ok, "none", NoCmd, TRUE)
    /\ UNCHANGED <<ctx_mut, panicked, cb_kind, bound_pipeline, pipe_via, writing, writer,
                   api_state, cmds,
                   pass_live, begin_calls, begun, end_calls>>
    /\ UNCHANGED not_cmd_vars

\* ActiveGraphicsPipeline::bind_index_buffer
BindIndexBuffer(i, p) ==
    /\ ~panicked /\ <<i, p>> \in pipe_live /\ Len(cmds) < MaxCmds
    /\ Record("bind_index_buffer", NoArgs, Cmd("cmd_bind_index_buffer", 0, 0, 0, 0, 0))
    /\ UNCHANGED <<ctx_mut, panicked, cb_kind, bound_pipeline, writing, writer, api_state,
                   pass_live,
                   pipe_live, begin_calls, begun, end_calls>>
    /\ pipe_via' = p
    /\ UNCHANGED not_cmd_vars

\* ActiveGraphicsPipeline::bind_descriptor_sets
BindDescriptorSets(i, p) ==
    /\ ~panicked /\ <<i, p>> \in pipe_live /\ Len(cmds) < MaxCmds
    /\ Record("bind_descriptor_sets", NoArgs, Cmd("cmd_bind_descriptor_sets", 0, 0, 0, 0, 0))
    /\ UNCHANGED <<ctx_mut, panicked, cb_kind, bound_pipeline, writing, writer, api_state,
                   pass_live,
                   pipe_live, begin_calls, begun, end_calls>>
    /\ pipe_via' = p
    /\ UNCHANGED not_cmd_vars

\* A count check that lets zero through.
CountIsZeroNever(n) == FALSE

\* The zero checks of draw and draw_indexed (if vertex_count == 0, ...).
CountIsZero(n) == n = 0

\* ActiveGraphicsPipeline::draw; the command carries the arguments in the order
\* cmd_draw takes them: vertex_count, instance_count, first_vertex, first_instance.
Draw(i, p, first_vertex, vertex_count, first_instance, instance_count) ==
    /\ ~panicked /\ <<i, p>> \in pipe_live /\ Len(cmds) < MaxCmds
    /\ IF CountIsZero(vertex_count) \/ CountIsZero(instance_count)
       THEN Reject("draw", <<first_vertex, vertex_count, first_instance, instance_count>>,
                   ArgumentError)
       ELSE Record("draw", <<first_vertex, vertex_count, first_instance, instance_count>>,
                   Cmd("cmd_draw", vertex_count, instance_count, first_vertex,
                       first_instance, 0))
    /\ UNCHANGED <<ctx_mut, panicked, cb_kind, bound_pipeline, writing, writer, api_state,
                   pass_live,
                   pipe_live, begin_calls, begun, end_calls>>
    /\ pipe_via' = p
    /\ UNCHANGED not_cmd_vars

\* ActiveGraphicsPipeline::draw_indexed; the command carries the arguments in the
\* order cmd_draw_indexed takes them: index_count, instance_count, first_index,
\* vertex_offset, first_instance.
DrawIndexed(i, p, first_index, index_count, vertex_offset, first_instance, instance_count) ==
    /\ ~panicked /\ <<i, p>> \in pipe_live /\ Len(cmds) < MaxCmds
    /\ IF CountIsZero(index_count) \/ CountIsZero(instance_count)
       THEN Reject("draw_indexed", <<first_index, index_count, vertex_offset, first_instance,
                             instance_count>>, ArgumentError)
       ELSE Record("draw_indexed", <<first_index, index_count, vertex_offset, first_instance,
                             instance_count>>,
                   Cmd("cmd_draw_indexed", index_count, instance_count,
                       first_index, vertex_offset, first_instance))
    /\ UNCHANGED <<ctx_mut, panicked, cb_kind, bound_pipeline, writing, writer, api_state,
                   pass_live,
                   pipe_live, begin_calls, begun, end_calls>>
    /\ pipe_via' = p
    /\ UNCHANGED not_cmd_vars

\* The argument values the calls are tried with.
Counts == {0, 1, 3}
Offsets == {0, 2}
VertexOffsets == {-1, 0}

CmdNext ==
    \/ BorrowContextMut
    \/ ReleaseContextMut
    \/ \E k \in QueueKinds, api_ok \in BOOLEAN : NewCommandBuffer(k, api_ok)
    \/ \E u \in BOOLEAN, su \in BOOLEAN, api_ok \in BOOLEAN : Begin(u, su, api_ok)
    \/ \E api_ok \in BOOLEAN : DropWriter(api_ok)
    \/ ForgetWriter
    \/ \E api_ok \in BOOLEAN : Submit(api_ok)
    \/ PipelineBarrier
    \/ ClearColorImage
    \/ \E inside \in BOOLEAN : CopyBufferToImage(inside)
    \/ \E i \in PassIds : BeginRenderPass(i)
    \/ \E i \in PassIds : DropRenderPass(i)
    \/ \E i \in PassIds, p \in Pipelines : BindGraphicsPipeline(i, p)
    \/ \E i \in PassIds, p \in Pipelines : DropGraphicsPipeline(i, p)
    \/ \E i \in PassIds, p \in Pipelines : BindIndexBuffer(i, p)
    \/ \E i \in PassIds, p \in Pipelines : BindDescriptorSets(i, p)
    \/ \E i \in PassIds, p \in Pipelines, fv \in Offsets, vc \in Counts,
          fi \in Offsets, ic \in Counts : Draw(i, p, fv, vc, fi, ic)
    \/ \E i \in PassIds, p \in Pipelines, fx \in Offsets, xc \in Counts,
          vo \in VertexOffsets, fi \in Offsets, ic \in Counts :
            DrawIndexed(i, p, fx, xc, vo, fi, ic)

----------------------------------------------------------------------------
(* VKHandle and HandleType: src/vm/graphicsengine/vkobject.rs *)

HandleIds == 1..MaxHandles

\* Some of the types that implement HandleType.
HandleKinds == {"Semaphore", "Image", "Queue", "CommandBuffer"}

\* Raw handle values of the API.
RawHandles == {"r1", "r2"}

\* HandleType::destroy of vk::Queue, vk::CommandBuffer and vk::DescriptorSet
\* returns Ok(()) without a call to the API; the other kinds call the destroy
\* function of their kind.
HasApiDestroy(kind) == kind \notin {"Queue", "CommandBuffer", "DescriptorSet"}

\* The API call HandleType::destroy makes for a kind.
ApiDestroyName(kind) ==
    IF kind = "Semaphore" THEN "destroy_semaphore"
    ELSE IF kind = "Image" THEN "destroy_image"
    ELSE "none"

NoHandle == [state |-> "none", kind |-> "none", raw |-> "none", protected |-> FALSE]

HandleCall(op, i, result, api, raw) ==
    [op |-> op, id |-> i, result |-> result, api |-> api, raw |-> raw,
     borrowed |-> ctx_mut]

HandleInit ==
    /\ handles = [i \in HandleIds |-> NoHandle]
    /\ destroy_calls = [i \in HandleIds |-> 0]
    /\ api_destroys = [i \in HandleIds |-> 0]
    /\ handle_last = [op |-> "new", id |-> 0, result |-> Ok, api |-> "none",
                      raw |-> "none", borrowed |-> FALSE]

\* VKHandle::new(context, handle, protected); the values are numbered in the
\* order of their creation.
NewHandle(i, kind, raw, protected) ==
    /\ ~panicked
    /\ handles[i].state = "none"
    /\ \A j \in HandleIds : j < i => handles[j].state # "none"
    /\ handles' = [handles EXCEPT ![i] = [state |-> "live", kind |-> kind, raw |-> raw,
                                          protected |-> protected]]
    /\ handle_last' = HandleCall("new_handle", i, Ok, "none", raw)
    /\ UNCHANGED <<destroy_calls, api_destroys, panicked>>
    /\ UNCHANGED not_handle_vars

\* *handle.handle_mut() = raw: the owner overwrites the wrapped raw handle.
HandleMut(i, raw) ==
    /\ ~panicked
    /\ handles[i].state = "live"
    /\ handles' = [handles EXCEPT ![i].raw = raw]
    /\ handle_last' = HandleCall("handle_mut", i, Ok, "none", raw)
    /\ UNCHANGED <<destroy_calls, api_destroys, panicked>>
    /\ UNCHANGED not_handle_vars

\* Whether Drop returns before HandleType::destroy.
DropSkipsDestroy(protected) == protected

\* impl Drop for VKHandle.  A protected handle returns at once.  Otherwise
\* HandleType::destroy is called on a copy of the raw handle; for a kind with
\* an API destroy function it borrows the Context with try_borrow()?, and the
\* expect() of Drop panics on its error.
DropHandle(i) ==
    /\ ~panicked
    /\ handles[i].state = "live"
    /\ handles' = [handles EXCEPT ![i].state = "dropped"]
    /\ IF DropSkipsDestroy(handles[i].protected)
       THEN /\ handle_last' = HandleCall("drop", i, Ok, "none", handles[i].raw)
            /\ UNCHANGED <<destroy_calls, api_destroys, panicked>>
       ELSE /\ destroy_calls' = [destroy_calls EXCEPT ![i] = @ + 1]
            /\ IF ~HasApiDestroy(handles[i].kind)
               THEN /\ handle_last' = HandleCall("drop", i, Ok, "none", handles[i].raw)
                    /\ UNCHANGED <<api_destroys, panicked>>
               ELSE IF TryBorrowFails
               THEN /\ handle_last' = HandleCall("drop", i, "Panic", "none", handles[i].raw)
                    /\ panicked' = TRUE
                    /\ UNCHANGED api_destroys
               ELSE /\ handle_last' = HandleCall("drop", i, Ok,
                                                 ApiDestroyName(handles[i].kind),
                                                 handles[i].raw)
                    /\ api_destroys' = [api_destroys EXCEPT ![i] = @ + 1]
                    /\ UNCHANGED panicked
    /\ UNCHANGED not_handle_vars

HandleNext ==
    \/ BorrowContextMut
    \/ ReleaseContextMut
    \/ \E i \in HandleIds, kind \in HandleKinds, raw \in RawHandles, protected \in BOOLEAN :
            NewHandle(i, kind, raw, protected)
    \/ \E i \in HandleIds, raw \in RawHandles : HandleMut(i, raw)
    \/ \E i \in HandleIds : DropHandle(i)

----------------------------------------------------------------------------
(* GraphicsEngine::draw and its stage: src/vm/graphicsengine/mod.rs, with   *)
(* Swapchain::acquire_next_image and Swapchain::present (swapchain.rs) and   *)
(* Queue::submit (queue.rs)                                                  *)

\* The semaphores of the engine.
ImageAvailableSemaphore == "image_available_semaphore"
FinishedSemaphore == "render_test.finished_semaphore"
NoSemaphore == "none"

\* The indices of the swapchain images.
ImageIndices == {0, 1}

\* The stages GraphicsEngine::draw submits, in the order it submits them.
Stages == <<"render_test">>

\* One call to the API: the function, the stage it belongs to, the semaphores
\* it waits on and signals, the image (or command buffer) index it is for, the
\* semaphore the engine call hands back to draw, and whether it succeeded.
ApiCall(call, stage, wait, signal, image, out, ok) ==
    [call |-> call, stage |-> stage, wait |-> wait, signal |-> signal,
     image |-> image, out |-> out, ok |-> ok]

\* Swapchain::acquire_next_image(None, Some(semaphore), None), which returned
\* image_index if it succeeded.
AcquireNextImage(semaphore, image_index, ok) ==
    ApiCall("acquire_next_image", "none", <<>>, <<semaphore>>,
            IF ok THEN image_index ELSE -1, semaphore, ok)

\* A stage that idles its queue where RenderTest::submit submits.
RenderTestSubmitIdling(wait_for, image_index, ok) ==
    ApiCall("queue_wait_idle", "render_test", <<wait_for>>, <<FinishedSemaphore>>,
            image_index, IF ok THEN FinishedSemaphore ELSE NoSemaphore, ok)

\* RenderTest::submit(wait_for, .., image_index, None): Queue::submit of command
\* buffer image_index, waiting on wait_for and signalling finished_semaphore,
\* which it returns.
RenderTestSubmit(wait_for, image_index, ok) ==
    ApiCall("queue_submit", "render_test", <<wait_for>>, <<FinishedSemaphore>>,
            image_index, IF ok THEN FinishedSemaphore ELSE NoSemaphore, ok)

\* Swapchain::present(image_index, queue, semaphore).
SwapchainPresent(image_index, semaphore, ok) ==
    ApiCall("queue_present", "none", <<semaphore>>, <<>>, image_index, NoSemaphore, ok)

\* queue_family_collection.present().queue_of_priority(1.0) is Some once
\* QueueFamilyCollection::setup has run, which GraphicsEngine::new does.
PresentQueueExists == TRUE

PresentWaitsOnAcquired(image_available, render_test_finished) == image_available

\* The semaphore draw passes to Swapchain::present.
PresentWaitsOn(image_available, render_test_finished) == render_test_finished

\* The semaphores of the frame.
Semaphores == {ImageAvailableSemaphore, FinishedSemaphore}

\* The semaphore operations an API call performs: its waits, then its signals.
\* A call that returns an error performs none, except that queue_present may
\* have enqueued its wait all the same (present_waited).
SemOps(call, present_waited) ==
    IF call.ok \/ (call.call = "queue_present" /\ present_waited)
    THEN [k \in 1..Len(call.wait) |-> <<"wait", call.wait[k]>>]
         \o [k \in 1..Len(call.signal) |-> <<"signal", call.signal[k]>>]
    ELSE <<>>

\* The semaphore operations of a sequence of API calls, in order.
RECURSIVE LogSemOps(_, _)
LogSemOps(log, present_waited) ==
    IF log = <<>> THEN <<>>
    ELSE SemOps(Head(log), present_waited) \o LogSemOps(Tail(log), present_waited)

\* The semaphores after a sequence of operations: a signal adds a pending
\* signal, a wait consumes one; a signal of a semaphore with a pending signal
\* and a wait on a semaphore with none are kept as misuse.
RECURSIVE SemApply(_, _, _)
SemApply(pending, misuse, ops) ==
    IF ops = <<>> THEN [pending |-> pending, misuse |-> misuse]
    ELSE LET op == Head(ops)
             s == op[2]
         IN  IF op[1] = "signal"
             THEN SemApply([pending EXCEPT ![s] = @ + 1],
                           IF pending[s] > 0 THEN misuse \cup {op} ELSE misuse,
                           Tail(ops))
             ELSE SemApply([pending EXCEPT ![s] = IF @ > 0 THEN @ - 1 ELSE 0],
                           IF pending[s] = 0 THEN misuse \cup {op} ELSE misuse,
                           Tail(ops))

FrameCall(op, result, image) ==
    [op |-> op, result |-> result, image |-> image, borrowed |-> ctx_mut]

FrameInit ==
    /\ frames = <<>>
    /\ frame_count = 0
    /\ frame_log = <<>>
    /\ frame_last = [op |-> "new", result |-> Ok, image |-> -1, borrowed |-> FALSE]
    /\ sem_pending = [s \in Semaphores |-> 0]
    /\ sem_misuse = {}

\* GraphicsEngine::draw: each step returns its error to the caller of draw.
\* The Context stays as it is for the whole call, so a mutable borrow stops
\* draw at its first try_borrow()?, in acquire_next_image.
GraphicsEngineDraw(image_index, acquire_ok, submit_ok, present_ok) ==
    /\ ~panicked
    /\ frame_count < MaxFrames
    /\ frame_count' = frame_count + 1
    /\ LET acquire == AcquireNextImage(ImageAvailableSemaphore, image_index, acquire_ok)
           submit == RenderTestSubmit(acquire.out, image_index, submit_ok)
           present == SwapchainPresent(image_index,
                                       PresentWaitsOn(acquire.out, submit.out),
                                       present_ok)
       IN  IF TryBorrowFails
           THEN /\ frame_log' = <<>>
                /\ frame_last' = FrameCall("draw", BorrowConflict, -1)
                /\ UNCHANGED frames
           ELSE IF ~acquire_ok
           THEN /\ frame_log' = <<acquire>>
                /\ frame_last' = FrameCall("draw", ApiError, -1)
                /\ UNCHANGED frames
           ELSE IF ~submit_ok
           THEN /\ frame_log' = <<acquire, submit>>
                /\ frame_last' = FrameCall("draw", ApiError, image_index)
                /\ UNCHANGED frames
           ELSE IF ~PresentQueueExists
           THEN /\ frame_log' = <<acquire, submit>>
                /\ frame_last' = FrameCall("draw", IllegalState, image_index)
                /\ UNCHANGED frames
           ELSE IF ~present_ok
           THEN /\ frame_log' = <<acquire, submit, present>>
                /\ frame_last' = FrameCall("draw", ApiError, image_index)
                /\ UNCHANGED frames
           ELSE /\ frame_log' = <<acquire, submit, present>>
                /\ frame_last' = FrameCall("draw", Ok, image_index)
                /\ frames' = Append(frames, image_index)
    /\ \E present_waited \in BOOLEAN :
          LET after == SemApply(sem_pending, sem_misuse,
                                LogSemOps(frame_log', present_waited))
          IN  /\ sem_pending' = after.pending
              /\ sem_misuse' = after.misuse
    /\ UNCHANGED not_frame_vars

\* GraphicsEngine::stop: device_wait_idle.
Stop(api_ok) ==
    /\ ~panicked
    /\ frame_last' = FrameCall("stop",
                               IF TryBorrowFails THEN BorrowConflict
                               ELSE IF api_ok THEN Ok ELSE ApiError, -1)
    /\ UNCHANGED <<frames, frame_count, frame_log, sem_pending, sem_misuse>>
    /\ UNCHANGED not_frame_vars

FrameNext ==
    \/ BorrowContextMut
    \/ ReleaseContextMut
    \/ \E image_index \in ImageIndices, acquire_ok, submit_ok, present_ok \in BOOLEAN :
            GraphicsEngineDraw(image_index, acquire_ok, submit_ok, present_ok)
    \/ \E api_ok \in BOOLEAN : Stop(api_ok)

----------------------------------------------------------------------------
(* CommandPool: src/vm/graphicsengine/queuefamily.rs *)

\* The error of a lookup that finds no batch under the handle.
NotFound == "ResourceNotFound"

\* The counts create_command_buffers is called with.
BatchCounts == {1, 2}

\* The handles passed to the pool: those of this pool and those another pool of
\* the engine issued (every queue family owns a transient and a long-term
\* pool, and their handles are of one type).
BatchHandles == 1..MaxBatches

\* Whether the HashMap holds a value under a key equal to handle h.
MapHas(m, h) == \E k \in DOMAIN m : HandleEq(k, h)

PoolBufferGraphics(raw, kind) == [raw |-> raw, writing |-> FALSE, kind |-> "Graphics"]

\* One CommandBuffer as CommandBuffer::new builds it.
PoolBuffer(raw, kind) == [raw |-> raw, writing |-> FALSE, kind |-> kind]

\* The raw handles of a batch, in order.
BatchRaws(batch) == [j \in 1..Len(batch) |-> batch[j].raw]

PoolCall(op, h, count, result, ret) ==
    [op |-> op, handle |-> h, count |-> count, result |-> result, ret |-> ret,
     pre_data |-> pool_data, pre_issued |-> Len(pool_issued),
     pre_freed |-> Len(pool_freed), pre_raw |-> pool_next_raw, borrowed |-> ctx_mut]

\* No command pool yet.
PoolInit ==
    /\ pool_kind = "uncreated"
    /\ pool_data = EmptyMap
    /\ pool_prev_index = 0
    /\ pool_next_raw = 0
    /\ pool_issued = <<>>
    /\ pool_counts = <<>>
    /\ pool_gone = {}
    /\ pool_freed = <<>>
    /\ pool_last = [op |-> "new", handle |-> 0, count |-> 0, result |-> Ok, ret |-> None,
                    pre_data |-> EmptyMap, pre_issued |-> 0, pre_freed |-> 0,
                    pre_raw |-> 0, borrowed |-> FALSE]

\* CommandPool::new for a family of some kind: an empty cache.
NewCommandPool(family_kind, api_ok) ==
    /\ ~panicked
    /\ pool_kind = "uncreated"
    /\ IF TryBorrowFails \/ ~api_ok
       THEN /\ pool_last' = PoolCall("new_pool", 0, 0,
                                     IF TryBorrowFails THEN BorrowConflict ELSE ApiError,
                                     None)
            /\ UNCHANGED pool_kind
       ELSE /\ pool_last' = PoolCall("new_pool", 0, 0, Ok, None)
            /\ pool_kind' = family_kind
    /\ UNCHANGED <<pool_data, pool_prev_index, pool_next_raw, pool_issued, pool_counts,
                   pool_gone, pool_freed, panicked>>
    /\ UNCHANGED not_pool_vars

\* CommandPool::create_command_buffers(count): CommandBuffer::new allocates
\* (try_borrow()?, allocate_command_buffers(..)?), Cache::insert stores the
\* batch, and command_buffers_mut(handle)? returns it.
CreateCommandBuffers(count, api_ok) ==
    /\ ~panicked /\ pool_kind # "uncreated"
    /\ Len(pool_issued) < MaxBatches
    /\ IF TryBorrowFails \/ ~api_ok
       THEN /\ pool_last' = PoolCall("create_command_buffers", 0, count,
                                     IF TryBorrowFails THEN BorrowConflict ELSE ApiError,
                                     None)
            /\ UNCHANGED <<pool_data, pool_prev_index, pool_next_raw, pool_issued,
                           pool_counts>>
       ELSE LET batch == [j \in 1..count |-> PoolBuffer(pool_next_raw + j, pool_kind)]
                handle == NextIndex(pool_prev_index, pool_data)
                stored == MapInsert(pool_data, handle, batch)
            IN  /\ pool_next_raw' = pool_next_raw + count
                /\ pool_prev_index' = handle
                /\ pool_data' = stored
                /\ pool_issued' = Append(pool_issued, handle)
                /\ pool_counts' = Append(pool_counts, count)
                /\ pool_last' = IF ~MapHas(stored, handle)
                                THEN PoolCall("create_command_buffers", 0, count,
                                              NotFound, None)
                                ELSE PoolCall("create_command_buffers", handle, count,
                                              Ok, MapGet(stored, handle))
    /\ UNCHANGED <<pool_kind, pool_gone, pool_freed, panicked>>
    /\ UNCHANGED not_pool_vars

\* CommandPool::destroy_command_buffers(handle): Cache::remove(handle).unwrap()
\* panics when the cache holds nothing under the handle; the batch is out of
\* the cache before try_borrow()?, and free_command_buffers is called once,
\* with the raw handles of the batch.
DestroyCommandBuffers(h) ==
    /\ ~panicked /\ pool_kind # "uncreated"
    /\ IF ~MapHas(pool_data, h)
       THEN /\ panicked' = TRUE
            /\ pool_last' = PoolCall("destroy_command_buffers", h, 0, "Panic", None)
            /\ UNCHANGED <<pool_data, pool_gone, pool_freed>>
       ELSE /\ pool_data' = MapRemove(pool_data, h)
            /\ UNCHANGED panicked
            /\ IF TryBorrowFails
               THEN /\ pool_last' = PoolCall("destroy_command_buffers", h, 0,
                                             BorrowConflict, None)
                    /\ UNCHANGED <<pool_gone, pool_freed>>
               ELSE /\ pool_freed' = Append(pool_freed, BatchRaws(MapGet(pool_data, h)))
                    /\ pool_gone' = pool_gone \cup {h}
                    /\ pool_last' = PoolCall("destroy_command_buffers", h, 0, Ok, None)
    /\ UNCHANGED <<pool_kind, pool_prev_index, pool_next_raw, pool_issued, pool_counts>>
    /\ UNCHANGED not_pool_vars

\* CommandPool::command_buffers(handle).
CommandBuffers(h) ==
    /\ ~panicked /\ pool_kind # "uncreated"
    /\ pool_last' = IF ~MapHas(pool_data, h)
                    THEN PoolCall("command_buffers", h, 0, NotFound, None)
                    ELSE PoolCall("command_buffers", h, 0, Ok, MapGet(pool_data, h))
    /\ UNCHANGED <<pool_kind, pool_data, pool_prev_index, pool_next_raw, pool_issued,
                   pool_counts, pool_gone, pool_freed, panicked>>
    /\ UNCHANGED not_pool_vars

\* CommandPool::command_buffers_mut(handle); with the slice it returns the
\* caller may begin buffer j and leak the writer, which leaves writing set.
CommandBuffersMut(h, j, leak) ==
    /\ ~panicked /\ pool_kind # "uncreated"
    /\ IF ~MapHas(pool_data, h)
       THEN /\ pool_last' = PoolCall("command_buffers_mut", h, 0, NotFound, None)
            /\ UNCHANGED pool_data
       ELSE /\ pool_last' = PoolCall("command_buffers_mut", h, 0, Ok, MapGet(pool_data, h))
            /\ IF leak /\ j <= Len(pool_data[h]) /\ ~TryBorrowFails
               THEN pool_data' = [pool_data EXCEPT ![h][j].writing = TRUE]
               ELSE UNCHANGED pool_data
    /\ UNCHANGED <<pool_kind, pool_prev_index, pool_next_raw, pool_issued,
                   pool_counts, pool_gone, pool_freed, panicked>>
    /\ UNCHANGED not_pool_vars

PoolNext ==
    \/ BorrowContextMut
    \/ ReleaseContextMut
    \/ \E family_kind \in QueueKinds, api_ok \in BOOLEAN :
            NewCommandPool(family_kind, api_ok)
    \/ \E count \in BatchCounts, api_ok \in BOOLEAN : CreateCommandBuffers(count, api_ok)
    \/ \E h \in BatchHandles : DestroyCommandBuffers(h)
    \/ \E h \in BatchHandles : CommandBuffers(h)
    \/ \E h \in BatchHandles, j \in BatchCounts, leak \in BOOLEAN :
            CommandBuffersMut(h, j, leak)

----------------------------------------------------------------------------
(* VKObject naming: vkobject.rs, buffer.rs, framebuffer.rs, swapchain.rs *)

\* A name is a sequence of tokens; format! appends tokens. "NUL" stands for an
\* interior 0 byte, which CString::new rejects.
Unnamed == <<"Unnamed">>

NameInputs == {<<"a">>, <<"b">>, <<"a", "NUL">>}

NameError == "Could not convert object name to a CString"

\* The composite objects named by callers, and the children each one owns.
Composites == {"buffer", "framebuffer", "swapchain"}

Owned(o) ==
    CASE o = "buffer" -> <<"buffer.memory">>
      [] o = "framebuffer" -> <<"framebuffer.attachments[0]">>
      [] o = "swapchain" -> <<"swapchain.swapchain_images[0]",
                              "swapchain.swapchain_images[1]">>

NameObjects == Composites \cup UNION {{Owned(o)[j] : j \in 1..Len(Owned(o))} : o \in Composites}

NoObject == "none"

\* set_children_names of each composite: the children it renames, in order,
\* each with the tokens format! appends to the composite's own name.
SetChildrenNames(o) ==
    CASE o = "buffer" -> <<[child |-> "buffer.memory", suffix |-> <<".memory">>]>>
      [] o = "framebuffer" -> <<>>
      [] o = "swapchain" -> <<[child |-> "swapchain.swapchain_images[0]", suffix |-> <<".", "0">>],
                              [child |-> "swapchain.swapchain_images[1]", suffix |-> <<".", "1">>]>>

\* CString::new(name) fails on an interior 0 byte.
CStringFails(n) == \E i \in 1..Len(n) : n[i] = "NUL"

\* A local name that an error of set_name restores.
LocalNameRolledBack(pre, n, result) == IF result = Ok THEN n ELSE pre

\* The name field after set_name(n): VKHandle::set_name runs first and no error
\* path of VKObject::set_name writes the field again.
LocalNameAfter(pre, n, result) == n

\* The outcome of the set_name block of one object: the step that fails, if any.
SetNameOutcome(n, api_ok) ==
    IF TryBorrowFails THEN [result |-> BorrowConflict, step |-> "try_borrow"]
    ELSE IF CStringFails(n) THEN [result |-> NameError, step |-> "CString::new"]
    ELSE IF ~api_ok THEN [result |-> ApiError, step |-> "debug_marker_set_object_name"]
    ELSE [result |-> Ok, step |-> "done"]

NameCall(o, n, result, step) ==
    [obj |-> o, name |-> n, result |-> result, step |-> step,
     pre_name |-> IF o = NoObject THEN Unnamed ELSE obj_name[o],
     pre_gpu |-> IF o = NoObject THEN Unnamed ELSE gpu_name[o],
     borrowed |-> ctx_mut]

NameInit ==
    /\ obj_name = [o \in NameObjects |-> Unnamed]
    /\ gpu_name = [o \in NameObjects |-> Unnamed]
    /\ name_calls = 0
    /\ name_last = [obj |-> NoObject, name |-> Unnamed, result |-> Ok, step |-> "done",
                    pre_name |-> Unnamed, pre_gpu |-> Unnamed, borrowed |-> FALSE]

\* VKObject::set_name(name) on composite o. api_ok: whether the annotation of o
\* succeeds; child_fail: the position in set_children_names of the child whose
\* annotation fails, 0 for none. A child's set_name meets the same Context
\* borrow and a name without a 0 byte, so only its annotation can fail.
SetName(o, n, api_ok, child_fail) ==
    LET own == SetNameOutcome(n, api_ok)
        kids == SetChildrenNames(o)
        \* the children whose set_name is called
        reached == IF own.result # Ok THEN {}
                   ELSE {j \in 1..Len(kids) : child_fail = 0 \/ j <= child_fail}
        annotated == {j \in reached : j # child_fail}
        result == IF own.result # Ok THEN own.result
                  ELSE IF child_fail # 0 THEN ApiError ELSE Ok
        step == IF own.result # Ok THEN own.step
                ELSE IF child_fail # 0 THEN "set_children_names" ELSE "done"
        kidname(j) == n \o kids[j].suffix
    IN
    /\ ~panicked /\ name_calls < MaxSetNames
    /\ child_fail \in 0..Len(kids)
    /\ name_calls' = name_calls + 1
    /\ obj_name' = [x \in NameObjects |->
            IF x = o THEN LocalNameAfter(obj_name[o], n, result)
            ELSE IF \E j \in reached : kids[j].child = x
                 THEN kidname(CHOOSE j \in reached : kids[j].child = x)
                 ELSE obj_name[x]]
    /\ gpu_name' = [x \in NameObjects |->
            IF x = o THEN (IF own.result = Ok THEN n ELSE gpu_name[o])
            ELSE IF \E j \in annotated : kids[j].child = x
                 THEN kidname(CHOOSE j \in annotated : kids[j].child = x)
                 ELSE gpu_name[x]]
    /\ name_last' = NameCall(o, n, result, step)
    /\ UNCHANGED not_name_vars

NameNext ==
    \/ BorrowContextMut
    \/ ReleaseContextMut
    \/ \E o \in Composites, n \in NameInputs, api_ok \in BOOLEAN, child_fail \in 0..2 :
            SetName(o, n, api_ok, child_fail)

----------------------------------------------------------------------------
(* SpriteLayer: spritelayer.rs *)

MaxReached == "The max number of sprites has been reached"

NoSprite == "No sprite exists with handle"

SpriteSlots == 0..(MAX_SPRITES - 1)

\* Option<usize>: None, Some(i).
NoIndex == [some |-> FALSE, idx |-> 0]

SomeIndex(i) == [some |-> TRUE, idx |-> i]

\* SpriteLayer::first_empty: None when sprite_count is MAX_SPRITES; else the
\* first empty slot among the first highest_sprite slots (take(highest_sprite)),
\* else highest_sprite + 1; 0 when there is no highest sprite.
FirstEmpty(slots, highest, count) ==
    IF count = MAX_SPRITES THEN NoIndex
    ELSE IF highest.some
    THEN LET scanned == {i \in SpriteSlots : i < highest.idx /\ ~slots[i]}
         IN IF scanned # {}
            THEN SomeIndex(CHOOSE i \in scanned : \A j \in scanned : i <= j)
            ELSE SomeIndex(highest.idx + 1)
    ELSE SomeIndex(0)

SpriteCall(op, index, result) ==
    [op |-> op, index |-> index, result |-> result, pre_sprites |-> sprites,
     pre_count |-> sprite_count, pre_highest |-> highest_sprite,
     pre_gone |-> sprite_gone]

SpriteInit ==
    /\ sprites = [i \in SpriteSlots |-> FALSE]
    /\ highest_sprite = NoIndex
    /\ sprite_count = 0
    /\ sprite_handles = {}
    /\ sprite_gone = {}
    /\ sprite_last = [op |-> "new", index |-> 0, result |-> Ok,
                      pre_sprites |-> [i \in SpriteSlots |-> FALSE], pre_count |-> 0,
                      pre_highest |-> NoIndex, pre_gone |-> {}]

\* SpriteLayer::create. The write sprites[index] panics when index is not an
\* index of the array; highest_sprite and sprite_count are updated before it.
SpriteCreate ==
    LET found == FirstEmpty(sprites, highest_sprite, sprite_count)
        index == found.idx
    IN
    /\ ~panicked
    /\ IF ~found.some
       THEN /\ sprite_last' = SpriteCall("create", 0, MaxReached)
            /\ UNCHANGED <<sprites, highest_sprite, sprite_count, sprite_handles, panicked>>
       ELSE /\ highest_sprite' = IF ~highest_sprite.some \/ index > highest_sprite.idx
                                 THEN SomeIndex(index) ELSE highest_sprite
            /\ sprite_count' = sprite_count + 1
            /\ IF index \in SpriteSlots
               THEN /\ sprites' = [sprites EXCEPT ![index] = TRUE]
                    /\ sprite_handles' = sprite_handles \cup {index}
                    /\ sprite_last' = SpriteCall("create", index, Ok)
                    /\ UNCHANGED panicked
               ELSE /\ panicked' = TRUE
                    /\ sprite_last' = SpriteCall("create", index, "Panic")
                    /\ UNCHANGED <<sprites, sprite_handles>>
    /\ UNCHANGED sprite_gone
    /\ UNCHANGED not_sprite_vars

\* SpriteLayer::destroy(handle), for a handle that create returned (handles
\* can be cloned, so a destroyed sprite's handle can be passed again). The loop
\* `for idx in (highest - 1)..=0` runs only for highest = 1, with idx = 0; for
\* highest = 0 the subtraction wraps or panics, by the build (wrap_build).
SpriteDestroy(h, wrap_build) ==
    /\ ~panicked /\ h \in sprite_handles
    /\ IF ~sprites[h]
       THEN /\ sprite_last' = SpriteCall("destroy", h, NoSprite)
            /\ UNCHANGED <<sprites, highest_sprite, sprite_count, panicked>>
       ELSE /\ sprites' = [sprites EXCEPT ![h] = FALSE]
            /\ sprite_count' = sprite_count - 1
            /\ IF h # highest_sprite.idx
               THEN /\ UNCHANGED <<highest_sprite, panicked>>
                    /\ sprite_last' = SpriteCall("destroy", h, Ok)
               ELSE IF sprite_count - 1 = 0
               THEN /\ highest_sprite' = NoIndex
                    /\ sprite_last' = SpriteCall("destroy", h, Ok)
                    /\ UNCHANGED panicked
               ELSE IF highest_sprite.idx = 0 /\ ~wrap_build
               THEN /\ panicked' = TRUE
                    /\ sprite_last' = SpriteCall("destroy", h, "Panic")
                    /\ UNCHANGED highest_sprite
               ELSE /\ highest_sprite' = IF highest_sprite.idx = 1 /\ sprites[0]
                                         THEN SomeIndex(0) ELSE highest_sprite
                    /\ sprite_last' = SpriteCall("destroy", h, Ok)
                    /\ UNCHANGED panicked
    /\ sprite_gone' = IF sprite_last'.result = Ok THEN sprite_gone \cup {h} ELSE sprite_gone
    /\ UNCHANGED sprite_handles
    /\ UNCHANGED not_sprite_vars

SpriteNext ==
    \/ SpriteCreate
    \/ \E h \in SpriteSlots, wrap_build \in BOOLEAN : SpriteDestroy(h, wrap_build)

----------------------------------------------------------------------------
(* Queue priorities of the families: queuefamily.rs 102-111, 149-170, 256-262 *)

\* A priority p in [0, 1] is the integer p * PriorityDen.
FamilyIndices == {0, 1}

\* QueueFamily::queue_priorities: 1.0 - i / queue_count for i in 0..queue_count.
QueuePriorities(queue_count) ==
    [i \in 1..queue_count |-> PriorityDen - ((i - 1) * PriorityDen) \div queue_count]

QueueCounts == {1, 2}

PriorityLists == {QueuePriorities(n) : n \in QueueCounts} \cup {<<PriorityDen \div 2>>}

FamilyPriority(index, pri) == [index |-> index, pri |-> pri]

FamilyPriorityLists ==
    UNION {[1..n -> {FamilyPriority(i, p) : i \in FamilyIndices, p \in PriorityLists}] :
            n \in 0..MaxFamilies}

\* Vec<f32> <= Vec<f32>: the lexicographic order of PartialOrd for slices.
RECURSIVE VecLeq(_, _)
VecLeq(a, b) ==
    IF a = <<>> THEN TRUE
    ELSE IF b = <<>> THEN FALSE
    ELSE IF a[1] < b[1] THEN TRUE
    ELSE IF a[1] > b[1] THEN FALSE
    ELSE VecLeq(Tail(a), Tail(b))

\* Vec::remove(i) for the 0-based index i.
VecRemove(l, i) == SubSeq(l, 1, i) \o SubSeq(l, i + 2, Len(l))

\* reduce_family_priorities_to_unique, by its two loops over 0-based indices.
\* `first_index -= 1` at first_index = 0 panics in a build with overflow
\* checks; in a build without them (wrap_build) it wraps, and the
\* `first_index += 1` after the break wraps back to 0.
RECURSIVE ReduceInner(_, _, _, _), ReduceOuter(_, _, _)
ReduceOuter(l, first_index, wrap_build) ==
    IF first_index < Len(l)
    THEN ReduceInner(l, first_index, first_index + 1, wrap_build)
    ELSE [list |-> l, result |-> Ok]

ReduceInner(l, first_index, second_index, wrap_build) ==
    IF ~(second_index < Len(l)) THEN ReduceOuter(l, first_index + 1, wrap_build)
    ELSE IF l[second_index + 1].index = l[first_index + 1].index
    THEN IF VecLeq(l[second_index + 1].pri, l[first_index + 1].pri)
         THEN ReduceInner(VecRemove(l, second_index), first_index,
                          (second_index - 1) + 1, wrap_build)
         ELSE IF first_index = 0 /\ ~wrap_build
              THEN [list |-> VecRemove(l, first_index), result |-> "Panic"]
              ELSE ReduceOuter(VecRemove(l, first_index),
                               (((first_index - 1) % UsizeModulus) + 1) % UsizeModulus,
                               wrap_build)
    ELSE ReduceInner(l, first_index, second_index + 1, wrap_build)

ReduceFamilyPrioritiesToUnique(l, wrap_build) == ReduceOuter(l, 0, wrap_build)

PriCall(op, input, out) ==
    [op |-> op, input |-> input, output |-> out.list, result |-> out.result]

PriInit ==
    pri_last = [op |-> "none", input |-> <<>>, output |-> <<>>, result |-> Ok]

\* reduce_family_priorities_to_unique(&mut priorities) on a list of the type.
Reduce(l, wrap_build) ==
    /\ ~panicked
    /\ LET out == ReduceFamilyPrioritiesToUnique(l, wrap_build)
       IN /\ pri_last' = PriCall("reduce", l, out)
          /\ panicked' = (out.result = "Panic")
    /\ UNCHANGED not_pri_vars

\* QueueFamilyCollection::queue_priorities for present, graphics and transfer
\* families with the given indices; queue_count[i] is the queue count the
\* device reports for family i.
CollectionQueuePriorities(present, graphics, transfer, queue_count, wrap_build) ==
    /\ ~panicked
    /\ LET l == <<FamilyPriority(present, QueuePriorities(queue_count[present])),
                  FamilyPriority(graphics, QueuePriorities(queue_count[graphics])),
                  FamilyPriority(transfer, QueuePriorities(queue_count[transfer]))>>
           out == ReduceFamilyPrioritiesToUnique(l, wrap_build)
       IN /\ pri_last' = PriCall("queue_priorities", l, out)
          /\ panicked' = (out.result = "Panic")
    /\ UNCHANGED not_pri_vars

PriNext ==
    \/ \E l \in FamilyPriorityLists, wrap_build \in BOOLEAN : Reduce(l, wrap_build)
    \/ \E present \in FamilyIndices, graphics \in FamilyIndices, transfer \in FamilyIndices,
          queue_count \in [FamilyIndices -> QueueCounts], wrap_build \in BOOLEAN :
            CollectionQueuePriorities(present, graphics, transfer, queue_count, wrap_build)

----------------------------------------------------------------------------
(* QueueFamily: queuefamily.rs 172-289 *)

\* Priorities passed by callers, in units of 1 / PriorityDen.
Priorities == {0, PriorityDen \div 2, PriorityDen}

\* (fractional_index * queue_count as f32) as usize, fractional_index = 1.0 - p.
FractionalIndex(p, queue_count) == ((PriorityDen - p) * queue_count) \div PriorityDen

Min(a, b) == IF a <= b THEN a ELSE b

Max(a, b) == IF a >= b THEN a ELSE b

\* The index window of queue_n_in_priority_range: lo from the larger priority,
\* hi from the smaller, both clamped to queue_count - 1.
IndexWindow(p0, p1, queue_count) ==
    [lo |-> Min(FractionalIndex(Max(p0, p1), queue_count), queue_count - 1),
     hi |-> Min(FractionalIndex(Min(p0, p1), queue_count), queue_count - 1)]

\* index.0 + (n - index.0) % (index.1 - index.0 + 1) where n - index.0 wraps.
WindowIndex(n, w) == w.lo + (((n - w.lo) % UsizeModulus) % (w.hi - w.lo + 1))

NoQueues == [some |-> FALSE, list |-> <<>>]

NoPools == [some |-> FALSE, transient |-> "none", long_term |-> "none"]

\* Queue::new for each idx in 0..queue_count: a queue of the family's kind.
NewQueues(kind, queue_count) ==
    [some |-> TRUE, list |-> [i \in 1..queue_count |-> [kind |-> kind, idx |-> i - 1]]]

\* CommandPoolCollection::new: a transient and a long-term pool of the kind.
NewPools(kind) == [some |-> TRUE, transient |-> kind, long_term |-> kind]

QfCall(op, n, p0, p1, result, index) ==
    [op |-> op, n |-> n, p0 |-> p0, p1 |-> p1, result |-> result, index |-> index,
     set_up |-> qf_set_up, borrowed |-> ctx_mut]

QfInit ==
    /\ qf_kind = "uncreated"
    /\ qf_queue_count = 0
    /\ qf_queues = NoQueues
    /\ qf_command_pools = NoPools
    /\ qf_set_up = FALSE
    /\ qf_last = [op |-> "none", n |-> 0, p0 |-> 0, p1 |-> 0, result |-> Ok, index |-> 0,
                  set_up |-> FALSE, borrowed |-> FALSE]

\* QueueFamily::new, called by choose_family with the queue count the device
\* reports for the family (at least 1).
QueueFamilyNew(kind, queue_count) ==
    /\ ~panicked /\ qf_kind = "uncreated"
    /\ qf_kind' = kind
    /\ qf_queue_count' = queue_count
    /\ qf_last' = QfCall("new", 0, 0, 0, Ok, 0)
    /\ UNCHANGED <<qf_queues, qf_command_pools, qf_set_up, panicked>>
    /\ UNCHANGED not_qf_vars

\* QueueFamily::setup. queues_ok: every Queue::new(..)?.with_name(..)? succeeds;
\* pools_ok: CommandPoolCollection::new succeeds. self.queues is assigned before
\* the command pools are created.
QueueFamilySetup(queues_ok, pools_ok) ==
    /\ ~panicked /\ qf_kind # "uncreated"
    /\ IF TryBorrowFails
       THEN /\ qf_last' = QfCall("setup", 0, 0, 0, BorrowConflict, 0)
            /\ UNCHANGED <<qf_queues, qf_command_pools, qf_set_up>>
       ELSE IF ~queues_ok
       THEN /\ qf_last' = QfCall("setup", 0, 0, 0, ApiError, 0)
            /\ UNCHANGED <<qf_queues, qf_command_pools, qf_set_up>>
       ELSE /\ qf_queues' = NewQueues(qf_kind, qf_queue_count)
            /\ IF ~pools_ok
               THEN /\ qf_last' = QfCall("setup", 0, 0, 0, ApiError, 0)
                    /\ UNCHANGED <<qf_command_pools, qf_set_up>>
               ELSE /\ qf_command_pools' = NewPools(qf_kind)
                    /\ qf_set_up' = TRUE
                    /\ qf_last' = QfCall("setup", 0, 0, 0, Ok, 0)
    /\ UNCHANGED <<qf_kind, qf_queue_count, panicked>>
    /\ UNCHANGED not_qf_vars

\* QueueFamily::queues.
Queues ==
    /\ ~panicked /\ qf_kind # "uncreated"
    /\ qf_last' = QfCall("queues", 0, 0, 0, IF qf_queues.some THEN "Some" ELSE "None", 0)
    /\ UNCHANGED <<qf_kind, qf_queue_count, qf_queues, qf_command_pools, qf_set_up,
                   panicked>>
    /\ UNCHANGED not_qf_vars

\* QueueFamily::command_pools.
CommandPools ==
    /\ ~panicked /\ qf_kind # "uncreated"
    /\ qf_last' = QfCall("command_pools", 0, 0, 0,
                         IF qf_command_pools.some THEN "Some" ELSE "None", 0)
    /\ UNCHANGED <<qf_kind, qf_queue_count, qf_queues, qf_command_pools, qf_set_up,
                   panicked>>
    /\ UNCHANGED not_qf_vars

\* QueueFamily::queue_of_priority(priority).
QueueOfPriority(p) ==
    LET index == Min(FractionalIndex(p, qf_queue_count), qf_queue_count - 1)
    IN
    /\ ~panicked /\ qf_kind # "uncreated"
    /\ qf_last' = QfCall("queue_of_priority", 0, p, p,
                         IF qf_queues.some THEN "Some" ELSE "None", index)
    /\ UNCHANGED <<qf_kind, qf_queue_count, qf_queues, qf_command_pools, qf_set_up,
                   panicked>>
    /\ UNCHANGED not_qf_vars

\* QueueFamily::queue_n_in_priority_range(n, (p0, p1)). The index is computed
\* before self.queues is looked at; n - index.0 with n < index.0 panics in a
\* build with overflow checks and wraps in one without (wrap_build).
QueueNInPriorityRange(n, p0, p1, wrap_build) ==
    LET w == IndexWindow(p0, p1, qf_queue_count)
        index == WindowIndex(n, w)
    IN
    /\ ~panicked /\ qf_kind # "uncreated"
    /\ IF n < w.lo /\ ~wrap_build
       THEN /\ panicked' = TRUE
            /\ qf_last' = QfCall("queue_n_in_priority_range", n, p0, p1, "Panic", 0)
       ELSE /\ qf_last' = QfCall("queue_n_in_priority_range", n, p0, p1,
                                 IF qf_queues.some THEN "Some" ELSE "None", index)
            /\ UNCHANGED panicked
    /\ UNCHANGED <<qf_kind, qf_queue_count, qf_queues, qf_command_pools, qf_set_up>>
    /\ UNCHANGED not_qf_vars

QfNext ==
    \/ BorrowContextMut
    \/ ReleaseContextMut
    \/ \E kind \in QueueKinds, queue_count \in 1..MaxQueues : QueueFamilyNew(kind, queue_count)
    \/ \E queues_ok \in BOOLEAN, pools_ok \in BOOLEAN : QueueFamilySetup(queues_ok, pools_ok)
    \/ Queues
    \/ CommandPools
    \/ \E p \in Priorities : QueueOfPriority(p)
    \/ \E n \in 0..MaxQueues, p0 \in Priorities, p1 \in Priorities, wrap_build \in BOOLEAN :
            QueueNInPriorityRange(n, p0, p1, wrap_build)

----------------------------------------------------------------------------
(* DescriptorSet: descriptorpool.rs 179-287 *)

\* The descriptors of the set's layout (DescriptorSetLayout.descriptors).
LayoutDescriptors ==
    <<[descriptor_type |-> "UNIFORM_BUFFER", count |-> 2],
      [descriptor_type |-> "COMBINED_IMAGE_SAMPLER", count |-> 2],
      [descriptor_type |-> "UNIFORM_BUFFER", count |-> 1]>>

\* The values of a u32 in the model.
U32 == 0..(U32Modulus - 1)

\* DescriptorSet::write_argument_check. start + count is a u32 addition: past
\* the width it panics in a build with overflow checks and wraps in one
\* without (wrap_build).
WriteArgumentCheck(descriptor_index, start, count, expected_descriptor_type, wrap_build) ==
    IF ds_layout_mut THEN BorrowConflict
    ELSE IF descriptor_index >= Len(LayoutDescriptors) THEN ArgumentError
    ELSE IF start + count >= U32Modulus /\ ~wrap_build THEN "Panic"
    ELSE IF (start + count) % U32Modulus > LayoutDescriptors[descriptor_index + 1].count
    THEN ArgumentError
    ELSE IF LayoutDescriptors[descriptor_index + 1].descriptor_type # expected_descriptor_type
    THEN ArgumentError
    ELSE Ok

DsInit ==
    /\ ds_layout_mut = FALSE
    /\ ds_last = [op |-> "none", descriptor_index |-> 0, start |-> 0, count |-> 0,
                  result |-> Ok, borrowed |-> FALSE]

\* A caller takes, and gives back, a mutable borrow of the layout
\* (Rc<RefCell<DescriptorSetLayout>>, handed out by DescriptorSet::layout).
BorrowLayoutMut ==
    /\ ~panicked /\ ~ds_layout_mut
    /\ ds_layout_mut' = TRUE
    /\ UNCHANGED <<ds_last, panicked>>
    /\ UNCHANGED not_ds_vars

ReleaseLayoutMut ==
    /\ ~panicked /\ ds_layout_mut
    /\ ds_layout_mut' = FALSE
    /\ UNCHANGED <<ds_last, panicked>>
    /\ UNCHANGED not_ds_vars

\* DescriptorSet::write_uniform_buffers(descriptor_index, start, buffer_writes)
\* with writes = buffer_writes.len().
WriteUniformBuffers(descriptor_index, start, writes, wrap_build) ==
    LET result == WriteArgumentCheck(descriptor_index, start, writes, "UNIFORM_BUFFER",
                                     wrap_build)
    IN
    /\ ~panicked
    /\ ds_last' = [op |-> "write_uniform_buffers", descriptor_index |-> descriptor_index,
                   start |-> start, count |-> writes, result |-> result,
                   borrowed |-> ds_layout_mut]
    /\ panicked' = (result = "Panic")
    /\ UNCHANGED ds_layout_mut
    /\ UNCHANGED not_ds_vars

DsNext ==
    \/ BorrowLayoutMut
    \/ ReleaseLayoutMut
    \/ \E descriptor_index \in 0..Len(LayoutDescriptors), start \in U32,
          writes \in 0..MaxWrites, wrap_build \in BOOLEAN :
            WriteUniformBuffers(descriptor_index, start, writes, wrap_build)

----------------------------------------------------------------------------
(* VM::start and the end of the process: src/vm/mod.rs 64-91, src/main.rs *)

\* What one GraphicsEngine::draw of the loop comes to: Ok, or the step that
\* returned the error.
DrawOutcomes == {"draw ok", "acquire_next_image error", "queue_submit error",
                 "queue_present error"}

\* A draw that stopped at its first try_borrow()?, before any API call.
DrawBorrowError == "draw borrow error"

VmInit ==
    /\ vm_pc = "created"
    /\ vm_running = FALSE
    /\ vm_log = <<>>
    /\ vm_result = "none"

\* VM::start is called: running = true.
VmStart ==
    /\ ~panicked /\ vm_pc = "created"
    /\ vm_pc' = "loop"
    /\ vm_running' = TRUE
    /\ UNCHANGED <<vm_log, vm_result, panicked>>
    /\ UNCHANGED not_vm_vars

\* One iteration of `while running`: the window is borrowed (try_borrow_mut()?),
\* the events are polled (CloseRequested sets running = false), then
\* self.graphics_engine_mut().draw()? runs, also in the iteration that saw
\* CloseRequested. An error leaves start at once through `?`.
VmIterate(window_ok, close_requested, draw) ==
    /\ ~panicked /\ vm_pc = "loop" /\ vm_running
    /\ Len(vm_log) < MaxLoops
    /\ IF ~window_ok
       THEN /\ vm_pc' = "returned"
            /\ vm_result' = BorrowConflict
            /\ UNCHANGED <<vm_log, vm_running>>
       ELSE /\ vm_running' = ~close_requested
            /\ vm_log' = Append(vm_log, IF TryBorrowFails THEN DrawBorrowError ELSE draw)
            /\ IF TryBorrowFails
               THEN vm_pc' = "returned" /\ vm_result' = BorrowConflict
               ELSE IF draw = "draw ok"
               THEN UNCHANGED <<vm_pc, vm_result>>
               ELSE vm_pc' = "returned" /\ vm_result' = ApiError
    /\ UNCHANGED panicked
    /\ UNCHANGED not_vm_vars

\* The loop has ended: self.graphics_engine().stop()?, then Ok(()).
VmStop(api_ok) ==
    /\ ~panicked /\ vm_pc = "loop" /\ ~vm_running
    /\ vm_log' = Append(vm_log, IF TryBorrowFails THEN "stop borrow error"
                                ELSE IF api_ok THEN "device_wait_idle ok"
                                ELSE "device_wait_idle error")
    /\ vm_pc' = "returned"
    /\ vm_result' = IF TryBorrowFails THEN BorrowConflict
                    ELSE IF api_ok THEN Ok ELSE ApiError
    /\ UNCHANGED <<vm_running, panicked>>
    /\ UNCHANGED not_vm_vars

\* main: vm.start().unwrap(), then the end of main. Either way (return or the
\* unwinding of the panic) vm is dropped, and with it the GraphicsEngine: its
\* GPU objects and the Context are destroyed by their Drop.
VmDrop ==
    /\ ~panicked /\ vm_pc = "returned"
    /\ vm_pc' = "dropped"
    /\ vm_log' = Append(vm_log, "destroy")
    /\ panicked' = (vm_result # Ok)
    /\ UNCHANGED <<vm_running, vm_result>>
    /\ UNCHANGED not_vm_vars

VmNext ==
    \/ BorrowContextMut
    \/ ReleaseContextMut
    \/ VmStart
    \/ \E window_ok \in BOOLEAN, close_requested \in BOOLEAN, draw \in DrawOutcomes :
            VmIterate(window_ok, close_requested, draw)
    \/ \E api_ok \in BOOLEAN : VmStop(api_ok)
    \/ VmDrop

----------------------------------------------------------------------------
(* Image::load_compressed_image: image.rs 358-462 *)

\* The calls of load_compressed_image that reach the GPU API, in program order.
\* The three recording calls return no API error; free_command_buffers
\* (destroy_command_buffers) returns none either.
LoadSteps ==
    <<"create staging_buffer", "set_name staging_buffer", "allocate_command_buffers",
      "begin_command_buffer", "cmd_pipeline_barrier", "cmd_copy_buffer_to_image",
      "cmd_pipeline_barrier", "end_command_buffer", "queue_submit", "queue_wait_idle",
      "free_command_buffers">>

\* The positions of LoadSteps whose call can return an error (or, for
\* end_command_buffer in the writer's Drop, panic).
LoadFailable == {1, 2, 3, 4, 8, 9, 10}

LoadEvent(load, step, ok) == [load |-> load, step |-> step, ok |-> ok]

\* The events of one execution that fails at position fail_at of LoadSteps
\* (0: no failure): the steps before it, the failing step, and then what
\* leaving the function drops. The staging buffer is a local: it is destroyed
\* on every way out once it has been created, by `?` as well as by the final
\* Ok(()).
LoadEvents(load, fail_at) ==
    LET last == IF fail_at = 0 THEN Len(LoadSteps) ELSE fail_at
        steps == [k \in 1..last |-> LoadEvent(load, LoadSteps[k], k # fail_at)]
    IN  IF fail_at = 1 THEN steps
        ELSE Append(steps, LoadEvent(load, "destroy staging_buffer", TRUE))

LoadInit ==
    /\ load_count = 0
    /\ load_log = <<>>
    /\ load_leaked = {}
    /\ load_last = [load |-> 0, result |-> Ok, fail_at |-> 0, borrowed |-> FALSE]

\* Image::load_compressed_image, whole. A mutably borrowed Context stops it at
\* its first try_borrow()?, in the creation of the staging buffer. A batch
\* that was allocated and not destroyed stays in the transient pool.
LoadCompressedImage(fail_at) ==
    LET load == load_count + 1
        at == IF TryBorrowFails THEN 1 ELSE fail_at
    IN
    /\ ~panicked /\ load_count < MaxLoads
    /\ load_count' = load
    /\ load_log' = load_log \o LoadEvents(load, at)
    /\ load_leaked' = IF at \in {4, 8, 9, 10} THEN load_leaked \cup {load} ELSE load_leaked
    /\ load_last' = [load |-> load,
                     result |-> IF TryBorrowFails THEN BorrowConflict
                                ELSE IF at = 0 THEN Ok
                                ELSE IF at = 8 THEN "Panic" ELSE ApiError,
                     fail_at |-> at, borrowed |-> ctx_mut]
    /\ panicked' = (at = 8)
    /\ UNCHANGED not_load_vars

LoadNext ==
    \/ BorrowContextMut
    \/ ReleaseContextMut
    \/ \E fail_at \in LoadFailable \cup {0} : LoadCompressedImage(fail_at)

----------------------------------------------------------------------------
(* Buffer::new (buffer.rs 24-66), Image2D::new (image.rs 33-113) and         *)
(* Memory::new (memory.rs 19-43)                                             *)

\* The fallible steps of Buffer::new / Image2D::new after try_borrow()?, in
\* program order: create_buffer / create_image, then inside Memory::new
\* get_memory_type_index and allocate_memory, then bind_buffer_memory /
\* bind_image_memory.
NewSteps == <<"create", "get_memory_type_index", "allocate_memory", "bind_memory">>

\* A raw GPU object: the call that created it and what it is.
Raw(call, obj) == [call |-> call, obj |-> obj]

\* Memory::new wraps the allocation in a VKHandle before it returns, so a
\* Memory that goes out of scope frees it (VKHandle's Drop, free_memory).
\* The memory alive after a constructor that stopped at step fail_at
\* (0: did not stop): only that of a constructor that returned Ok.
MemoryAlive(call, fail_at) == IF fail_at = 0 THEN {Raw(call, "memory")} ELSE {}

\* The raw buffer or image is a plain vk handle until the final Ok(Self {..})
\* wraps it in a VKHandle: a `?` after its creation drops nothing for it.
RawAlive(call, kind, fail_at) == IF fail_at = 1 THEN {} ELSE {Raw(call, kind)}

ResCall(op, call, kind, result, fail_at) ==
    [op |-> op, call |-> call, kind |-> kind, result |-> result, fail_at |-> fail_at,
     borrowed |-> ctx_mut]

ResInit ==
    /\ res_count = 0
    /\ res_live = {}
    /\ res_owned = {}
    /\ res_last = [op |-> "none", call |-> 0, kind |-> "none", result |-> Ok,
                   fail_at |-> 0, borrowed |-> FALSE]

\* Buffer::new, whole: try_borrow()?, create_buffer(..)?, Memory::new(..)?,
\* bind_buffer_memory(..)?, Ok(Self {..}).
BufferNew(fail_at) ==
    LET call == res_count + 1 IN
    /\ ~panicked /\ res_count < MaxNews
    /\ res_count' = call
    /\ IF TryBorrowFails
       THEN /\ res_last' = ResCall("new", call, "buffer", BorrowConflict, 0)
            /\ UNCHANGED <<res_live, res_owned>>
       ELSE /\ res_live' = res_live \cup RawAlive(call, "buffer", fail_at)
                                    \cup MemoryAlive(call, fail_at)
            /\ res_owned' = IF fail_at = 0 THEN res_owned \cup {call} ELSE res_owned
            /\ res_last' = ResCall("new", call, "buffer",
                                   IF fail_at = 0 THEN Ok
                                   ELSE IF fail_at = 2 THEN ArgumentError ELSE ApiError,
                                   fail_at)
    /\ UNCHANGED panicked
    /\ UNCHANGED not_res_vars

\* Image2D::new, whole: the checks of mip_count and extent (args_ok), then
\* try_borrow()?, create_image(..)?, Memory::new(..)?, bind_image_memory(..)?,
\* Ok(Self {..}).
Image2DNew(args_ok, fail_at) ==
    LET call == res_count + 1 IN
    /\ ~panicked /\ res_count < MaxNews
    /\ res_count' = call
    /\ IF ~args_ok
       THEN /\ res_last' = ResCall("new", call, "image", ArgumentError, 0)
            /\ UNCHANGED <<res_live, res_owned>>
       ELSE IF TryBorrowFails
       THEN /\ res_last' = ResCall("new", call, "image", BorrowConflict, 0)
            /\ UNCHANGED <<res_live, res_owned>>
       ELSE /\ res_live' = res_live \cup RawAlive(call, "image", fail_at)
                                    \cup MemoryAlive(call, fail_at)
            /\ res_owned' = IF fail_at = 0 THEN res_owned \cup {call} ELSE res_owned
            /\ res_last' = ResCall("new", call, "image",
                                   IF fail_at = 0 THEN Ok
                                   ELSE IF fail_at = 2 THEN ArgumentError ELSE ApiError,
                                   fail_at)
    /\ UNCHANGED panicked
    /\ UNCHANGED not_res_vars

\* The owner drops the Buffer or Image2D a constructor returned: the Drop of
\* its VKHandle destroys the buffer or image and that of its Memory frees the
\* memory; each panics (expect) while the Context is mutably borrowed.
DropResource(call) ==
    /\ ~panicked /\ call \in res_owned
    /\ res_owned' = res_owned \ {call}
    /\ IF ctx_mut
       THEN /\ panicked' = TRUE
            /\ res_last' = ResCall("drop", call, "none", "Panic", 0)
            /\ UNCHANGED res_live
       ELSE /\ res_live' = {r \in res_live : r.call # call}
            /\ res_last' = ResCall("drop", call, "none", Ok, 0)
            /\ UNCHANGED panicked
    /\ UNCHANGED res_count
    /\ UNCHANGED not_res_vars

ResNext ==
    \/ BorrowContextMut
    \/ ReleaseContextMut
    \/ \E fail_at \in 0..Len(NewSteps) : BufferNew(fail_at)
    \/ \E args_ok \in BOOLEAN, fail_at \in 0..Len(NewSteps) : Image2DNew(args_ok, fail_at)
    \/ \E call \in 1..MaxNews : DropResource(call)

----------------------------------------------------------------------------
(* The stages: RenderTest::submit_draw (rendertest.rs),                      *)
(* SpriteLayerRenderer::submit_draw (spritelayerrenderer.rs) and             *)
(* PresentTransitioner::submit (presenttransitioner.rs), over Queue::submit  *)
(* (queuefamily.rs)                                                          *)

StageNames == {"RenderTest", "SpriteLayerRenderer", "PresentTransitioner"}

\* The semaphore each stage owns and passes as the signal semaphore.
StageSemaphore(stage) ==
    IF stage = "RenderTest" THEN "RenderTest.finished_semaphore"
    ELSE IF stage = "SpriteLayerRenderer"
    THEN "SpriteLayerRenderer.pipeline.finished_semaphore"
    ELSE "PresentTransitioner.finished_semaphore"

\* The pipeline stage each stage waits at.
StageWaitMask(stage) ==
    IF stage = "RenderTest" THEN "TOP_OF_PIPE"
    ELSE IF stage = "SpriteLayerRenderer" THEN "COLOR_ATTACHMENT_OUTPUT"
    ELSE "BOTTOM_OF_PIPE"

\* The semaphores a caller passes as wait_for.
WaitSemaphores == {ImageAvailableSemaphore, StageSemaphore("SpriteLayerRenderer")}

\* The fence a caller passes as signaled_fence: GraphicsEngine passes None.
Fences == {"none"}

\* The image indices a caller passes: those of a batch of two, and one past it.
StageImageIndices == {0, 1, 2}

StageSignalsWaitFor(stage, wait_for) == <<wait_for>>

\* The signal list the stage hands to Queue::submit.
StageSignals(stage, wait_for) == <<StageSemaphore(stage)>>

\* Queue::submit(Some(&[buffer]), Some(&[(wait_for, mask)]), Some(&[signal]), fence)
\* as it reaches queue_submit.
QueueSubmit(stage, wait_for, raw, fence, ok) ==
    [call |-> "queue_submit", buffers |-> <<raw>>, wait |-> <<wait_for>>,
     wait_mask |-> <<StageWaitMask(stage)>>, signal |-> StageSignals(stage, wait_for),
     fence |-> fence, ok |-> ok]

StageCall(stage, wait_for, h, image_index, result, ret) ==
    [stage |-> stage, wait_for |-> wait_for, handle |-> h, image_index |-> image_index,
     result |-> result, ret |-> ret, borrowed |-> ctx_mut,
     found |-> MapHas(pool_data, h),
     batch |-> IF MapHas(pool_data, h) THEN MapGet(pool_data, h) ELSE <<>>]

StageInit ==
    /\ stage_log = <<>>
    /\ stage_last = [stage |-> "none", wait_for |-> NoSemaphore, handle |-> 0,
                     image_index |-> 0, result |-> Ok, ret |-> NoSemaphore,
                     borrowed |-> FALSE, found |-> FALSE, batch |-> <<>>]

\* submit_draw / submit of a stage whose batch handle is h: the lookup of the
\* batch in the long-term pool (command_buffers(h)?), the indexing of the batch
\* (which panics past its end), then Queue::submit (try_borrow()?,
\* queue_submit(..)?), then Ok(&finished_semaphore).
SubmitDraw(stage, wait_for, h, image_index, fence, api_ok) ==
    /\ ~panicked /\ pool_kind # "uncreated"
    /\ IF ~MapHas(pool_data, h)
       THEN /\ stage_log' = <<>>
            /\ stage_last' = StageCall(stage, wait_for, h, image_index, NotFound,
                                       NoSemaphore)
            /\ UNCHANGED panicked
       ELSE IF image_index + 1 > Len(MapGet(pool_data, h))
       THEN /\ stage_log' = <<>>
            /\ stage_last' = StageCall(stage, wait_for, h, image_index, "Panic",
                                       NoSemaphore)
            /\ panicked' = TRUE
       ELSE IF TryBorrowFails
       THEN /\ stage_log' = <<>>
            /\ stage_last' = StageCall(stage, wait_for, h, image_index, BorrowConflict,
                                       NoSemaphore)
            /\ UNCHANGED panicked
       ELSE /\ stage_log' = <<QueueSubmit(stage, wait_for,
                                          MapGet(pool_data, h)[image_index + 1].raw,
                                          fence, api_ok)>>
            /\ stage_last' = IF api_ok
                             THEN StageCall(stage, wait_for, h, image_index, Ok,
                                            StageSemaphore(stage))
                             ELSE StageCall(stage, wait_for, h, image_index, ApiError,
                                            NoSemaphore)
            /\ UNCHANGED panicked
    /\ UNCHANGED not_stage_vars

\* The stages with the pool calls that create their batches.
StageNext ==
    \/ BorrowContextMut
    \/ ReleaseContextMut
    \/ \E family_kind \in {"Graphics"}, api_ok \in {TRUE} :
            NewCommandPool(family_kind, api_ok)
    \/ \E count \in BatchCounts, api_ok \in {TRUE} : CreateCommandBuffers(count, api_ok)
    \/ \E stage \in StageNames, wait_for \in WaitSemaphores, h \in BatchHandles,
          image_index \in StageImageIndices, fence \in Fences, api_ok \in BOOLEAN :
            SubmitDraw(stage, wait_for, h, image_index, fence, api_ok)

\* The state after construction of every component.
Init ==
    /\ CacheInit /\ CmdInit /\ HandleInit /\ FrameInit /\ PoolInit /\ StageInit
    /\ NameInit /\ SpriteInit /\ PriInit /\ QfInit /\ DsInit /\ VmInit /\ LoadInit /\ ResInit

CmdSpec == Init /\ [][CmdNext]_vars

CacheSpec == Init /\ [][CacheNext]_vars

HandleSpec == Init /\ [][HandleNext]_vars

FrameSpec == Init /\ [][FrameNext]_vars

PoolSpec == Init /\ [][PoolNext]_vars

StageSpec == Init /\ [][StageNext]_vars

NameSpec == Init /\ [][NameNext]_vars

SpriteSpec == Init /\ [][SpriteNext]_vars

PriSpec == Init /\ [][PriNext]_vars

QfSpec == Init /\ [][QfNext]_vars

DsSpec == Init /\ [][DsNext]_vars

VmSpec == Init /\ [][VmNext]_vars

LoadSpec == Init /\ [][LoadNext]_vars

ResSpec == Init /\ [][ResNext]_vars

----------------------------------------------------------------------------
(* Properties of the cache *)

\* C1: every handle insert returns has an index strictly greater than the index
\* of every handle the same cache returned before, removals in between or not.
C1_HandleMonotonic ==
    \A c \in Caches : \A i, j \in 1..Len(issued[c]) :
        i < j => issued[c][i] < issued[c][j]

\* C1 witness: an insert on a cache that has issued a handle before and has had
\* that handle removed in between.
C1_Witness ==
    /\ cache_last.op = "insert" /\ cache_last.cache = "A"
    /\ Len(issued["A"]) >= 2
    /\ issued["A"][1] \in removed["A"]
    /\ MapGet(data["A"], issued["A"][1]) = None

\* C2 (as claimed): once remove(h) has been called on a cache, get(h) returns
\* absent in every later state of the cache and no later insert on it returns a
\* handle equal to h.
C2_NoAliasAfterRemove ==
    \A h \in removed["A"] :
        /\ MapGet(data["A"], h) = None
        /\ ~(cache_last.op = "insert" /\ cache_last.cache = "A"
             /\ HandleEq(cache_last.ret_handle, h))

\* C3 (as claimed): remove, get and get_mut return the value stored under h
\* exactly when h was issued by this cache and not removed since; otherwise
\* (removed, or issued by another cache) they return None and change nothing.
C3_PresenceSemantics ==
    cache_last.op \in {"remove", "get", "get_mut"} =>
        IF /\ cache_last.origin = cache_last.cache
           /\ cache_last.handle \in IssuedSet(cache_last.cache)
           /\ ~cache_last.pre_removed
        THEN cache_last.ret_value # None /\ cache_last.ret_value = cache_last.pre_value
        ELSE cache_last.ret_value = None /\ ~cache_last.changed

----------------------------------------------------------------------------
(* Properties of command-buffer recording and submission *)

\* C4 (as claimed): begin on a buffer that is Recording fails with illegal-state
\* and starts no second recording; begin on a buffer whose previous writer has
\* been released succeeds and puts the buffer in Recording.
C4_BeginClaim ==
    cmd_last.op = "begin" =>
        IF cmd_last.writing_before
        THEN cmd_last.result = IllegalState /\ cmd_last.api = "none" /\ writing
        ELSE cmd_last.result = Ok /\ writing /\ writer = "live"

\* C4 (amended): begin on a buffer that is Recording fails with illegal-state,
\* issues no API call and leaves the buffer as it was; begin on a buffer that is
\* not Recording is never refused as already recording: it succeeds, and puts
\* the buffer in Recording, exactly when the Context is not mutably borrowed
\* and the API begin call succeeds, and otherwise leaves the buffer Idle.
C4_BeginGuard ==
    cmd_last.op = "begin" =>
        IF cmd_last.writing_before
        THEN /\ cmd_last.result = IllegalState
             /\ cmd_last.api = "none"
             /\ writing /\ writer # "live"
             /\ Len(cmds) = cmd_last.ncmds_before
        ELSE /\ cmd_last.result # IllegalState
             /\ (cmd_last.result = Ok) <=> (~cmd_last.borrowed /\ cmd_last.api_ok)
             /\ cmd_last.result = Ok =>
                    writing /\ writer = "live" /\ api_state = "recording"
             /\ cmd_last.result # Ok => ~writing /\ writer = "none"

\* C4 witness: a begin refused as already recording, on a buffer that was begun,
\* released and begun again before.
C4_Witness ==
    /\ cmd_last.op = "begin" /\ cmd_last.writing_before
    /\ cmd_last.result = IllegalState
    /\ end_calls >= 1 /\ begun >= 2

\* C5 (as claimed): every successful begin is followed by exactly one
\* end-recording API call, issued when its writer is released, after which the
\* buffer is Idle; no end-recording call is issued for a buffer that is not
\* Recording.
C5_EndOncePerBegin ==
    /\ writer = "none" => end_calls = begun
    /\ writer # "none" => end_calls = begun - 1
    /\ cmd_last.op = "drop_writer" =>
            cmd_last.api = "end_command_buffer" /\ ~writing
    /\ cmd_last.api = "end_command_buffer" => cmd_last.writing_before

\* C6 (as claimed): a command buffer passed to Queue::submit is Idle, never
\* Recording.
C6_SubmitOnlyIdle ==
    cmd_last.op = "submit" => ~writing /\ api_state # "recording"

\* C7: begin_render_pass passes the kind check exactly on Graphics buffers,
\* clear_color_image exactly on Graphics and Compute buffers, pipeline_barrier
\* and copy_buffer_to_image on Transfer, Graphics and Compute buffers (so on a
\* Transfer buffer the first two fail and the last two pass); a call refused by
\* the kind check returns illegal-state, issues no API call, records no command
\* and creates no render pass.
C7_KindCheck ==
    /\ cmd_last.op = "begin_render_pass" =>
            ((cmd_last.result = IllegalState) <=> (cb_kind # "Graphics"))
    /\ cmd_last.op = "clear_color_image" =>
            ((cmd_last.result = IllegalState) <=> (cb_kind \notin {"Graphics", "Compute"}))
    /\ cmd_last.op \in {"pipeline_barrier", "copy_buffer_to_image"} =>
            ((cmd_last.result = IllegalState)
                <=> (cb_kind \notin {"Transfer", "Graphics", "Compute"}))
    /\ (/\ cmd_last.op \in {"begin_render_pass", "clear_color_image",
                              "pipeline_barrier", "copy_buffer_to_image"}
        /\ cmd_last.result = IllegalState) =>
            /\ cmd_last.api = "none" /\ cmd_last.cmd = NoCmd
            /\ Len(cmds) = cmd_last.ncmds_before
            /\ Cardinality(pass_live) = cmd_last.npasses_before

\* C7 witness: a Transfer buffer that has accepted a barrier and a copy and
\* then refuses begin_render_pass.
C7_Witness ==
    /\ cb_kind = "Transfer"
    /\ cmd_last.op = "begin_render_pass" /\ cmd_last.result = IllegalState
    /\ cmds = <<"cmd_pipeline_barrier", "cmd_copy_buffer_to_image">>

\* The draw and draw_indexed calls, and the place of the two counts in their
\* argument lists.
IsDrawCall == cmd_last.op \in {"draw", "draw_indexed"}
DrawHasZeroCount == cmd_last.args[2] = 0 \/ cmd_last.args[Len(cmd_last.args)] = 0

\* The command a draw or draw_indexed call is to record for its arguments.
ExpectedDrawCmd ==
    IF cmd_last.op = "draw"
    THEN Cmd("cmd_draw", cmd_last.args[2], cmd_last.args[4], cmd_last.args[1],
             cmd_last.args[3], 0)
    ELSE Cmd("cmd_draw_indexed", cmd_last.args[2], cmd_last.args[5], cmd_last.args[1],
             cmd_last.args[3], cmd_last.args[4])

\* C8 (as claimed): draw and draw_indexed fail with an argument error and record
\* nothing when a count is zero; with all counts non-zero the call succeeds and
\* records exactly one draw command carrying the given counts and offsets.
C8_DrawClaim ==
    IsDrawCall =>
        IF DrawHasZeroCount
        THEN /\ cmd_last.result = ArgumentError
             /\ cmd_last.api = "none" /\ Len(cmds) = cmd_last.ncmds_before
        ELSE /\ cmd_last.result = Ok
             /\ cmd_last.cmd = ExpectedDrawCmd
             /\ Len(cmds) = cmd_last.ncmds_before + 1

\* C8 (amended): with a zero count the call fails with an argument error and
\* records nothing; with all counts non-zero it succeeds, recording exactly one
\* draw command carrying the given counts and offsets, unless the Context is
\* mutably borrowed, and then it returns the borrow error and records nothing.
C8_DrawCounts ==
    IsDrawCall =>
        IF DrawHasZeroCount
        THEN /\ cmd_last.result = ArgumentError
             /\ cmd_last.api = "none" /\ Len(cmds) = cmd_last.ncmds_before
        ELSE IF cmd_last.borrowed
        THEN /\ cmd_last.result = BorrowConflict
             /\ cmd_last.api = "none" /\ Len(cmds) = cmd_last.ncmds_before
        ELSE /\ cmd_last.result = Ok
             /\ cmd_last.cmd = ExpectedDrawCmd
             /\ Len(cmds) = cmd_last.ncmds_before + 1
             /\ cmds[Len(cmds)] = ExpectedDrawCmd.name

\* C8 witness: draw(first_vertex = 2, vertex_count = 3, first_instance = 0,
\* instance_count = 1) has succeeded.
C8_Witness ==
    /\ cmd_last.op = "draw" /\ cmd_last.result = Ok
    /\ cmd_last.args = <<2, 3, 0, 1>>
    /\ cmd_last.cmd = Cmd("cmd_draw", 3, 1, 2, 0, 0)

----------------------------------------------------------------------------
(* Properties of VKHandle *)

\* C9 (as claimed): the drop of a VKHandle issues the destroy call of its kind
\* for its raw handle if and only if it was constructed with protected = false,
\* and then exactly once; a protected handle never causes a destroy call.  For
\* the kinds whose destroy makes no call to the API (queues, command buffers,
\* descriptor sets) the call counted is the one to HandleType::destroy.
C9_DestroyIffUnprotected ==
    /\ \A i \in HandleIds :
        /\ handles[i].state # "dropped" => destroy_calls[i] = 0 /\ api_destroys[i] = 0
        /\ handles[i].state = "dropped" =>
                IF handles[i].protected
                THEN destroy_calls[i] = 0 /\ api_destroys[i] = 0
                ELSE /\ destroy_calls[i] = 1
                     /\ HasApiDestroy(handles[i].kind) => api_destroys[i] = 1
    /\ (handle_last.op = "drop" /\ handle_last.api # "none") =>
            /\ handle_last.api = ApiDestroyName(handles[handle_last.id].kind)
            /\ handle_last.raw = handles[handle_last.id].raw

----------------------------------------------------------------------------
(* Properties of the frame *)

\* C10: a draw call first acquires the swapchain image, signalling the
\* image-acquired semaphore; then submits the stages in stage order, each only
\* after the call before it succeeded and waiting on exactly the semaphore that
\* call handed on (the image-acquired semaphore for stage 1, the semaphore
\* stage k returned for stage k+1); and calls present last, for the acquired
\* image index, waiting only on the semaphore the last stage returned.
C10_FrameChain ==
    frame_last.op = "draw" =>
        /\ \A i \in 1..Len(frame_log) :
            /\ (frame_log[i].call = "acquire_next_image") <=> (i = 1)
            /\ i = 1 => frame_log[i].signal = <<ImageAvailableSemaphore>>
            /\ i > 1 =>
                    /\ frame_log[i - 1].ok
                    /\ frame_log[i].wait = <<frame_log[i - 1].out>>
                    /\ frame_log[i].image = frame_log[1].image
            /\ (i > 1 /\ i <= Len(Stages) + 1) =>
                    /\ frame_log[i].call = "queue_submit"
                    /\ frame_log[i].stage = Stages[i - 1]
                    /\ frame_log[i].ok =>
                            frame_log[i].signal = <<frame_log[i].out>>
            /\ i > Len(Stages) + 1 =>
                    /\ frame_log[i].call = "queue_present"
                    /\ i = Len(frame_log)
        /\ Len(frame_log) <= Len(Stages) + 2
        /\ (frame_last.result = Ok) <=>
                (Len(frame_log) = Len(Stages) + 2 /\ frame_log[Len(frame_log)].ok)
        /\ frame_last.result = Ok =>
                frames # <<>> /\ frames[Len(frames)] = frame_log[1].image

\* C10 witness: a second frame presented, for image 1, after a first one that
\* was presented too.
C10_Witness ==
    /\ frame_last.op = "draw" /\ frame_last.result = Ok
    /\ Len(frames) = 2 /\ frame_last.image = 1
    /\ Len(frame_log) = 3
    /\ frame_log[3].call = "queue_present"
    /\ frame_log[3].wait = <<FinishedSemaphore>>
    /\ frame_log[2].wait = <<ImageAvailableSemaphore>>

----------------------------------------------------------------------------
(* Properties of the stages *)

----------------------------------------------------------------------------
(* Properties of the semaphores *)

\* C12 (as claimed): across any sequence of draw calls, successful or failed,
\* each semaphore is used alternately as signal then wait: never signalled
\* while a signal of it is pending, never waited on with no signal pending.
C12_SemaphoreAlternation ==
    /\ sem_misuse = {}
    /\ \A s \in Semaphores : sem_pending[s] \in {0, 1}

----------------------------------------------------------------------------
(* Properties of the command pool *)

\* The position of handle h among the handles the pool issued.
IssuedAt(h) == CHOOSE k \in 1..Len(pool_issued) : pool_issued[k] = h

\* C13: once destroy_command_buffers(h) has succeeded for a handle h that
\* create_command_buffers returned, the pool holds nothing under h in any later
\* state and command_buffers(h), command_buffers_mut(h) return the not-found
\* error; the destroy made one free call, with exactly the buffers of that
\* batch, and left every other batch in the pool as it was.
C13_DestroyedBatchStaysGone ==
    /\ \A h \in pool_gone :
            /\ \E k \in 1..Len(pool_issued) : pool_issued[k] = h
            /\ ~MapHas(pool_data, h)
    /\ (/\ pool_last.op \in {"command_buffers", "command_buffers_mut"}
        /\ pool_last.handle \in pool_gone) => pool_last.result = NotFound
    /\ (pool_last.op = "destroy_command_buffers" /\ pool_last.result = Ok) =>
            /\ MapHas(pool_last.pre_data, pool_last.handle)
            /\ Len(pool_freed) = pool_last.pre_freed + 1
            /\ pool_freed[Len(pool_freed)] =
                    BatchRaws(pool_last.pre_data[pool_last.handle])
            /\ Len(pool_freed[Len(pool_freed)]) = pool_counts[IssuedAt(pool_last.handle)]
            /\ DOMAIN pool_data = (DOMAIN pool_last.pre_data) \ {pool_last.handle}
            /\ \A k \in DOMAIN pool_data : pool_data[k] = pool_last.pre_data[k]

\* C13 witness: the first batch, of two buffers, was destroyed, a second batch
\* is in the pool, and a lookup of the first handle has returned not-found.
C13_Witness ==
    /\ pool_last.op = "command_buffers" /\ pool_last.handle = 1
    /\ pool_last.result = NotFound
    /\ 1 \in pool_gone /\ pool_counts[1] = 2
    /\ pool_freed = <<<<1, 2>>>>
    /\ MapHas(pool_data, 2)

\* C14 (as claimed): destroy_command_buffers, command_buffers and
\* command_buffers_mut given a handle the pool holds nothing under return the
\* not-found error, free nothing, change nothing and do not panic.
C14_StaleHandleNotFound ==
    (/\ pool_last.op \in {"destroy_command_buffers", "command_buffers",
                          "command_buffers_mut"}
     /\ ~MapHas(pool_last.pre_data, pool_last.handle)) =>
        /\ pool_last.result = NotFound
        /\ ~panicked
        /\ Len(pool_freed) = pool_last.pre_freed
        /\ pool_data = pool_last.pre_data

\* C15: a successful create_command_buffers(count) adds exactly one batch: the
\* handle returned is greater than every handle the pool issued before, the
\* pool holds under it exactly the count buffers that call allocated (the slice
\* returned), each Idle and of the pool's kind, and the other batches are as
\* they were.
C15_CreateAddsOneBatch ==
    (pool_last.op = "create_command_buffers" /\ pool_last.result = Ok) =>
        /\ Len(pool_issued) = pool_last.pre_issued + 1
        /\ pool_issued[Len(pool_issued)] = pool_last.handle
        /\ \A k \in 1..pool_last.pre_issued : pool_issued[k] < pool_last.handle
        /\ ~MapHas(pool_last.pre_data, pool_last.handle)
        /\ DOMAIN pool_data = (DOMAIN pool_last.pre_data) \cup {pool_last.handle}
        /\ \A k \in DOMAIN pool_last.pre_data : pool_data[k] = pool_last.pre_data[k]
        /\ pool_last.ret = pool_data[pool_last.handle]
        /\ Len(pool_data[pool_last.handle]) = pool_last.count
        /\ \A j \in 1..pool_last.count :
                /\ pool_data[pool_last.handle][j].raw = pool_last.pre_raw + j
                /\ ~pool_data[pool_last.handle][j].writing
                /\ pool_data[pool_last.handle][j].kind = pool_kind
        /\ pool_next_raw = pool_last.pre_raw + pool_last.count

\* C15 witness: a Transfer pool whose first batch was destroyed has created a
\* second batch, of two buffers.
C15_Witness ==
    /\ pool_kind = "Transfer"
    /\ pool_last.op = "create_command_buffers" /\ pool_last.result = Ok
    /\ pool_last.count = 2 /\ pool_last.handle = 2
    /\ 1 \in pool_gone
    /\ DOMAIN pool_data = {2}

----------------------------------------------------------------------------
(* Properties of the recording contexts *)

\* The number of commands named name among the first k recorded.
Recorded(name, k) == Cardinality({j \in 1..k : cmds[j] = name})

\* The commands of an ActiveGraphicsPipeline.
PipelineCmds == {"cmd_bind_index_buffer", "cmd_bind_descriptor_sets", "cmd_draw",
                 "cmd_draw_indexed"}

\* C16 (as claimed): within one recording every successful begin_render_pass is
\* matched by exactly one end-render-pass command, recorded when its
\* ActiveRenderPass is released and before the end-recording call; at no point
\* are more end-render-pass than begin-render-pass commands recorded.
C16_RenderPassBalanced ==
    /\ \A k \in 0..Len(cmds) :
            Recorded("cmd_end_render_pass", k) <= Recorded("cmd_begin_render_pass", k)
    /\ Recorded("cmd_begin_render_pass", Len(cmds))
            - Recorded("cmd_end_render_pass", Len(cmds)) = Cardinality(pass_live)
    /\ cmd_last.op = "drop_render_pass" => cmd_last.api = "cmd_end_render_pass"
    /\ cmd_last.api = "end_command_buffer" =>
            Recorded("cmd_begin_render_pass", Len(cmds))
                = Recorded("cmd_end_render_pass", Len(cmds))

\* C17 (as claimed): while an ActiveRenderPass of a writer is alive, no second
\* render pass is begun on the writer and no clear_color_image or
\* copy_buffer_to_image is recorded; at most one render pass is active.
C17_DepthLegality ==
    /\ Cardinality(pass_live) <= 1
    /\ (/\ cmd_last.op \in {"begin_render_pass", "clear_color_image",
                              "copy_buffer_to_image"}
        /\ cmd_last.npasses_before > 0) =>
            cmd_last.cmd = NoCmd /\ Len(cmds) = cmd_last.ncmds_before

\* C18: every bind_index_buffer, bind_descriptor_sets, draw and draw_indexed
\* command recorded comes after a begin-render-pass and, after that, a
\* bind-pipeline command of the same recording, at a point where a begun render
\* pass has not been ended; the call that records it is made on a live
\* ActiveGraphicsPipeline, whose ActiveRenderPass is alive and cannot be
\* released before it.
C18_PipelineCmdsInsidePass ==
    /\ \A k \in 1..Len(cmds) :
            cmds[k] \in PipelineCmds =>
                /\ \E b \in 1..k, q \in 1..k :
                        /\ b < q /\ q < k
                        /\ cmds[b] = "cmd_begin_render_pass"
                        /\ cmds[q] = "cmd_bind_pipeline"
                /\ Recorded("cmd_begin_render_pass", k) > Recorded("cmd_end_render_pass", k)
    /\ \A ip \in pipe_live : ip[1] \in pass_live
    /\ pass_live # {} => writer = "live"
    /\ (/\ cmd_last.op \in {"bind_index_buffer", "bind_descriptor_sets", "draw",
                              "draw_indexed"}
        /\ cmd_last.result = Ok) =>
            /\ cmd_last.npasses_before > 0
            /\ pass_live # {} /\ pipe_live # {}

\* C18 witness: a recording of begin-render-pass, bind-pipeline, draw and the
\* end-render-pass of the released pass.
C18_Witness ==
    /\ cmds = <<"cmd_begin_render_pass", "cmd_bind_pipeline", "cmd_draw",
                "cmd_end_render_pass">>
    /\ pass_live = {} /\ writer = "live"

----------------------------------------------------------------------------
(* Properties of VKObject naming *)

\* Whether name c is derived from n: n followed by at least one more token.
DerivedFrom(c, n) == Len(c) > Len(n) /\ SubSeq(c, 1, Len(n)) = n

\* C19: VKObject::set_name(n) updates the local name before the GPU annotation:
\* whatever the call returns (a borrow conflict, a name that does not convert
\* to a C string, a failed annotation, a failed child), name() returns n
\* afterwards, and an error of the object's own annotation leaves the
\* annotation as it was.
C19_NameKeptOnError ==
    name_last.obj # NoObject =>
        /\ obj_name[name_last.obj] = name_last.name
        /\ name_last.step \in {"try_borrow", "CString::new", "debug_marker_set_object_name"} =>
                /\ name_last.result # Ok
                /\ gpu_name[name_last.obj] = name_last.pre_gpu
        /\ name_last.step \in {"set_children_names", "done"} =>
                gpu_name[name_last.obj] = name_last.name
        /\ name_last.borrowed <=> name_last.result = BorrowConflict

\* C19 witness: a set_name whose annotation failed, on an object that had
\* another name before.
C19_Witness ==
    /\ name_last.obj # NoObject
    /\ name_last.result = ApiError
    /\ name_last.step = "debug_marker_set_object_name"
    /\ name_last.pre_name # name_last.name
    /\ name_last.pre_name # Unnamed
    /\ obj_name[name_last.obj] = name_last.name

\* C20 (as claimed): after a successful set_name(n) on a composite object,
\* every child it owns carries a name derived from n.
C20_ChildrenNamed ==
    (name_last.obj # NoObject /\ name_last.result = Ok) =>
        \A j \in 1..Len(Owned(name_last.obj)) :
            DerivedFrom(obj_name[Owned(name_last.obj)[j]], name_last.name)

----------------------------------------------------------------------------
(* Properties of the shared Context *)

\* C24 (as claimed): an operation that needs the Context while it is mutably
\* borrowed (recording, submission, the release of a CommandBufferWriter or of
\* an ActiveRenderPass) surfaces a borrow-conflict error and issues no GPU call;
\* it neither proceeds nor panics. A call rejected for its arguments or for the
\* buffer's kind or state before it reaches the Context is not concerned.
C24_BorrowConflictSurfaced ==
    /\ cmd_last.borrowed => cmd_last.result # "Panic"
    /\ (cmd_last.borrowed /\ cmd_last.op # "new_buffer"
            /\ cmd_last.result \notin {IllegalState, ArgumentError}) =>
            /\ cmd_last.result = BorrowConflict
            /\ cmd_last.api = "none"

----------------------------------------------------------------------------
(* Properties of the sprite layer *)

\* C29 (as claimed): create succeeds whenever the layer holds fewer than
\* MAX_SPRITES sprites, fails with the max-number-reached error exactly when it
\* holds MAX_SPRITES, and never accesses a slot outside [0, MAX_SPRITES).
C29_CreateUntilFull ==
    sprite_last.op = "create" =>
        LET held == Cardinality({i \in SpriteSlots : sprite_last.pre_sprites[i]})
        IN /\ held < MAX_SPRITES => sprite_last.result = Ok
           /\ sprite_last.result = MaxReached <=> held = MAX_SPRITES
           /\ sprite_last.result # MaxReached => sprite_last.index \in SpriteSlots

\* C30 (as claimed): on a layer that is not full, create places the new sprite
\* in the lowest empty slot.
C30_FirstEmptySlot ==
    (sprite_last.op = "create" /\ sprite_last.result = Ok) =>
        /\ ~sprite_last.pre_sprites[sprite_last.index]
        /\ \A j \in SpriteSlots : j < sprite_last.index => sprite_last.pre_sprites[j]

\* The occupied slots of the layer.
Occupied == {i \in SpriteSlots : sprites[i]}

\* C31 (as claimed): in every reachable state of a SpriteLayer sprite_count is
\* the number of occupied slots, and the slot named by the handle create
\* returned was empty immediately before the call.
C31_CountIsOccupied ==
    /\ sprite_count = Cardinality(Occupied)
    /\ (sprite_last.op = "create" /\ sprite_last.result = Ok) =>
           ~sprite_last.pre_sprites[sprite_last.index]

\* C32 (as claimed): in every reachable state of a SpriteLayer highest_sprite
\* is None exactly when no slot is occupied, and otherwise is the highest
\* occupied slot index.
C32_HighestIsHighestOccupied ==
    /\ highest_sprite.some <=> Occupied # {}
    /\ highest_sprite.some =>
           /\ highest_sprite.idx \in Occupied
           /\ \A i \in Occupied : i <= highest_sprite.idx

\* C33 (as claimed): once destroy(h) has succeeded, every later destroy with
\* the same handle h fails with the no-sprite-exists error and changes nothing,
\* whatever creates happened in between.
C33_DestroyedHandleStaysDead ==
    (sprite_last.op = "destroy" /\ sprite_last.index \in sprite_last.pre_gone) =>
        /\ sprite_last.result = NoSprite
        /\ sprites = sprite_last.pre_sprites
        /\ sprite_count = sprite_last.pre_count
        /\ highest_sprite = sprite_last.pre_highest

----------------------------------------------------------------------------
(* Properties of the queue priorities *)

----------------------------------------------------------------------------
(* Properties of the queue family *)

\* C21 (as claimed): before setup has succeeded, queues, queue_of_priority,
\* queue_n_in_priority_range and command_pools return None; after a successful
\* setup the family holds exactly queue_count queues and a transient and a
\* long-term command pool, all of the family's kind.
C21_NoneBeforeSetup ==
    /\ (/\ qf_last.op \in {"queues", "queue_of_priority", "queue_n_in_priority_range",
                           "command_pools"}
        /\ ~qf_last.set_up) => qf_last.result = "None"
    /\ (qf_last.op = "setup" /\ qf_last.result = Ok) =>
            /\ qf_queues.some /\ Len(qf_queues.list) = qf_queue_count
            /\ \A i \in 1..Len(qf_queues.list) : qf_queues.list[i].kind = qf_kind
            /\ qf_command_pools = [some |-> TRUE, transient |-> qf_kind,
                                   long_term |-> qf_kind]

\* C28 (as claimed): on a set-up family, for every n >= 0 and every priority
\* range within [0, 1], queue_n_in_priority_range returns a queue whose index
\* lies in the window [lo, hi] of the range, without underflow or out-of-bounds
\* access, also when n < lo and when the window has zero width.
C28_IndexInWindow ==
    (qf_last.op = "queue_n_in_priority_range" /\ qf_last.set_up) =>
        LET w == IndexWindow(qf_last.p0, qf_last.p1, qf_queue_count)
        IN /\ qf_last.result = "Some"
           /\ w.lo <= qf_last.index /\ qf_last.index <= w.hi
           /\ qf_last.index < qf_queue_count

----------------------------------------------------------------------------
(* Properties of descriptor writes *)

\* C25 (as claimed): write_uniform_buffers(descriptor_index, start, writes)
\* returns an argument error whenever descriptor_index is no descriptor of the
\* layout, or [start, start + number of writes) is not within the descriptor's
\* count (sums past the width of u32 included), or the descriptor is no
\* UNIFORM_BUFFER; it succeeds in every other case. Stated for calls that find
\* the layout free of a mutable borrow.
C25_WriteRangeChecked ==
    (ds_last.op = "write_uniform_buffers" /\ ~ds_last.borrowed) =>
        LET i == ds_last.descriptor_index
            bad == \/ i >= Len(LayoutDescriptors)
                   \/ ds_last.start + ds_last.count > LayoutDescriptors[i + 1].count
                   \/ LayoutDescriptors[i + 1].descriptor_type # "UNIFORM_BUFFER"
        IN ds_last.result = IF bad THEN ArgumentError ELSE Ok

----------------------------------------------------------------------------
(* Properties of the run loop *)

\* C22 (as claimed): on every path by which VM::start ends, a path where a draw
\* returns an error included, the device-idle wait has completed before any GPU
\* object or the Context is destroyed, and no draw is issued after that wait.
\* Stated for the runs in which a draw has reached the GPU API.
C22_IdleBeforeDestroy ==
    \A k \in 1..Len(vm_log) :
        /\ (vm_log[k] = "destroy" /\ \E j \in 1..(k - 1) : vm_log[j] \in DrawOutcomes) =>
                \E j \in 1..(k - 1) : vm_log[j] = "device_wait_idle ok"
        /\ vm_log[k] \in DrawOutcomes \cup {DrawBorrowError} =>
                \A j \in 1..(k - 1) : vm_log[j] \notin {"device_wait_idle ok",
                                                        "device_wait_idle error"}

\* The API calls that idle a queue or the device.
IdleCalls == {"queue_wait_idle", "device_wait_idle"}

----------------------------------------------------------------------------
(* Properties of the one-shot upload *)

\* The positions in load_log of the events of call load with the given step.
LoadAt(load, step) ==
    {k \in 1..Len(load_log) : load_log[k].load = load /\ load_log[k].step = step}

\* C26 (as claimed): in every execution of load_compressed_image the command
\* buffer is recorded (barrier, copy, barrier) and its writer released, then it
\* is submitted, then Queue::wait is called; the staging buffer and the batch
\* are freed only after Queue::wait has returned successfully for that
\* submission.
C26_FreeAfterWait ==
    \A load \in 1..load_count :
        /\ \A s \in LoadAt(load, "queue_submit") :
               /\ \E c \in LoadAt(load, "cmd_copy_buffer_to_image"),
                     e \in LoadAt(load, "end_command_buffer") :
                        c < e /\ e < s /\ load_log[e].ok
               /\ \A w \in LoadAt(load, "queue_wait_idle") : s < w
        /\ \A f \in LoadAt(load, "destroy staging_buffer")
                        \cup LoadAt(load, "free_command_buffers") :
               (\E s \in LoadAt(load, "queue_submit") : s < f /\ load_log[s].ok) =>
                    \E w \in LoadAt(load, "queue_wait_idle") : w < f /\ load_log[w].ok

----------------------------------------------------------------------------
(* Properties of a failed begin *)

\* C34: when CommandBuffer::begin returns an error (already writing, Context
\* borrow conflict, or the API begin call failing) the writing flag has the
\* value it had before the call and the call left no CommandBufferWriter; a
\* failed begin on an idle buffer leaves it idle.
C34_FailedBeginKeepsFlag ==
    (cmd_last.op = "begin" /\ cmd_last.result # Ok) =>
        /\ writing = cmd_last.writing_before
        /\ writer # "live"
        /\ cmd_last.result \in {IllegalState, BorrowConflict, ApiError}
        /\ cmd_last.result = IllegalState <=> cmd_last.writing_before

\* A begin on an idle buffer failed in the API call, after an earlier begin
\* had succeeded and its writer was dropped.
C34_Witness ==
    /\ cmd_last.op = "begin" /\ cmd_last.result = ApiError
    /\ ~cmd_last.writing_before /\ ~writing
    /\ begun >= 1

----------------------------------------------------------------------------
(* Properties of a failed destroy_command_buffers *)

\* C35 (as claimed): when destroy_command_buffers(h) returns an error the pool
\* is unchanged: the batch under h is still in the pool and none of its
\* buffers has been freed.
C35_FailedDestroyKeepsBatch ==
    (/\ pool_last.op = "destroy_command_buffers"
     /\ pool_last.result \notin {Ok, "Panic"}) =>
        /\ pool_data = pool_last.pre_data
        /\ MapHas(pool_data, pool_last.handle)
        /\ Len(pool_freed) = pool_last.pre_freed

----------------------------------------------------------------------------
(* Properties of the batch of the one-shot upload *)

\* C36 (as claimed): when load_compressed_image returns, successfully or with
\* an error from recording, submission or waiting, the transient command pool
\* holds no command-buffer batch created by that call.
C36_NoBatchLeftBehind ==
    (load_last.load >= 1 /\ load_last.result # "Panic") =>
        load_last.load \notin load_leaked

----------------------------------------------------------------------------
(* Properties of the constructors of buffers and images *)

\* C37 (as claimed): when Buffer::new or Image2D::new returns an error, every
\* raw GPU object the call created before failing (the buffer or image, and
\* its memory) has been destroyed.
C37_FailedNewLeavesNothing ==
    (res_last.op = "new" /\ res_last.result # Ok) =>
        \A r \in res_live : r.call # res_last.call

----------------------------------------------------------------------------
(* Properties of a failed setup of a queue family *)

\* C38 (as claimed): when QueueFamily::setup returns an error on a family not
\* yet set up, the family is left as it was before the call: queues() and
\* command_pools() both still return None, never one set and the other unset.
C38_FailedSetupLeavesNone ==
    (qf_last.op = "setup" /\ qf_last.result # Ok /\ ~qf_last.set_up) =>
        /\ ~qf_queues.some
        /\ ~qf_command_pools.some

----------------------------------------------------------------------------
(* Properties of the pipeline-bound recording context *)

\* C39 (as claimed): whenever draw, draw_indexed or bind_descriptor_sets is
\* recorded through an ActiveGraphicsPipeline, the pipeline most recently bound
\* in the command buffer is that ActiveGraphicsPipeline's own pipeline.
C39_OwnPipelineBound ==
    (/\ cmd_last.op \in {"draw", "draw_indexed", "bind_descriptor_sets"}
     /\ cmd_last.result = Ok) =>
        cmd_last.bound_before = pipe_via

====
